---- MODULE Spec2Model ----
\* founder-signal-worker: the extraction pipeline of src/src/index.ts
\* (classifySignal, stripHtmlTags, fetchTopComments, hackerNewsProvider).
\* Strings are sequences of one-character strings, so that case folding,
\* prefix and substring tests, regular-expression replacement, slicing and
\* length are computed character by character as the code computes them.
EXTENDS Integers, Sequences, FiniteSets, TLC

VARIABLES
    fn,          \* the function called: "classifySignal", "stripHtmlTags",
                 \* "fetchTopComments" or "hackerNewsProvider"
    arg,         \* its arguments
    ret,         \* its return value: None while the call runs, else Some(v)
    pc,          \* where the call is: "call", "top", "items", "comments", "done"
    topRes,      \* hackerNewsProvider: the outcome of the top stories fetch
    storyIds,    \* hackerNewsProvider: the parsed top stories list
    itemRes,     \* hackerNewsProvider: the outcome of each item fetch
    items,       \* hackerNewsProvider: one result slot per itemPromise
    itemPending, \* hackerNewsProvider: positions whose item fetch is in flight
    limitedItems,\* hackerNewsProvider: the filtered items, cut to limit
    agg,         \* one fetchTopComments activation per limited item
    fetchLog,    \* every fetch issued so far, in order of issue
    request,     \* the router: the Request handled, None outside the router
    env,         \* the router: the worker's environment bindings
    claudeRes,   \* POST /synthesize: the outcome of the downstream call
    response     \* the router: the Response returned, None until then

\* The variables of the router.
routerVars == <<request, env, claudeRes, response>>

vars == <<fn, arg, ret, pc, topRes, storyIds, itemRes, items, itemPending,
          limitedItems, agg, fetchLog, request, env, claudeRes, response>>

\* ---------------------------------------------------------------- bounds
\* Number of fragments concatenated into an input of classifySignal.
MaxClassifyFrags == 2
\* Number of fragments concatenated into an input of stripHtmlTags.
MaxSanitizeFrags == 3
\* Length of the longest top stories list the upstream serves.
MaxStories == 2
\* Length of the longest kids list passed to fetchTopComments on its own.
MaxKids == 4
\* The largest limit below the cap that extract is called with.
MaxSmallLimit == 2
\* The largest denominator of a fractional limit passed to normalizeLimit.
MaxLimitDen == 3
\* By how many ids the longest top stories list exceeds the fetch cap.
MaxOverCap == 2

\* ---------------------------------------------------------------- strings
\* An optional value (undefined, null, a promise not yet settled) is the
\* empty sequence; a present value v is the one-element sequence <<v>>.
None == <<>>
Some(v) == <<v>>

RECURSIVE Concat(_)
\* The concatenation of a sequence of strings.
Concat(ss) == IF ss = <<>> THEN <<>> ELSE Head(ss) \o Concat(Tail(ss))

RECURSIVE Join(_, _)
\* Array.prototype.join
Join(ss, sep) ==
    IF ss = <<>> THEN <<>>
    ELSE IF Len(ss) = 1 THEN ss[1]
    ELSE ss[1] \o sep \o Join(Tail(ss), sep)

\* All concatenations of at most n fragments drawn from the sequence frags.
FragStrings(frags, n) ==
    { Concat([i \in DOMAIN f |-> frags[f[i]]]) :
        f \in UNION { [1..k -> 1..Len(frags)] : k \in 0..n } }

\* String.prototype.startsWith
StartsWith(s, p) == Len(p) <= Len(s) /\ SubSeq(s, 1, Len(p)) = p

\* String.prototype.includes / RegExp.test of a literal
Includes(s, p) == \E i \in 1..(Len(s) - Len(p) + 1) : SubSeq(s, i, i + Len(p) - 1) = p

\* String.prototype.toLowerCase on one character
LowerChar(c) ==
    CASE c = "A" -> "a" [] c = "B" -> "b" [] c = "C" -> "c" [] c = "D" -> "d"
      [] c = "E" -> "e" [] c = "F" -> "f" [] c = "G" -> "g" [] c = "H" -> "h"
      [] c = "I" -> "i" [] c = "J" -> "j" [] c = "K" -> "k" [] c = "L" -> "l"
      [] c = "M" -> "m" [] c = "N" -> "n" [] c = "O" -> "o" [] c = "P" -> "p"
      [] c = "Q" -> "q" [] c = "R" -> "r" [] c = "S" -> "s" [] c = "T" -> "t"
      [] c = "U" -> "u" [] c = "V" -> "v" [] c = "W" -> "w" [] c = "X" -> "x"
      [] c = "Y" -> "y" [] c = "Z" -> "z" [] OTHER -> c

\* String.prototype.toLowerCase
ToLowerCase(s) == [i \in 1..Len(s) |-> LowerChar(s[i])]

\* ---------------------------------------------------------------- classifySignal
\* /(pain|stuck|frustrat|hate|broken|can't|cannot|problem|issue)/
PainPatterns ==
    { <<"p","a","i","n">>, <<"s","t","u","c","k">>,
      <<"f","r","u","s","t","r","a","t">>, <<"h","a","t","e">>,
      <<"b","r","o","k","e","n">>, <<"c","a","n","'","t">>,
      <<"c","a","n","n","o","t">>, <<"p","r","o","b","l","e","m">>,
      <<"i","s","s","u","e">> }

\* /(workaround|hack|duct tape|script|automate|i built|we built|solution)/
WorkaroundPatterns ==
    { <<"w","o","r","k","a","r","o","u","n","d">>, <<"h","a","c","k">>,
      <<"d","u","c","t"," ","t","a","p","e">>, <<"s","c","r","i","p","t">>,
      <<"a","u","t","o","m","a","t","e">>, <<"i"," ","b","u","i","l","t">>,
      <<"w","e"," ","b","u","i","l","t">>, <<"s","o","l","u","t","i","o","n">> }

\* /(looking for|anyone know|recommend|need a tool|wish there was|does anyone)/
RequestPatterns ==
    { <<"l","o","o","k","i","n","g"," ","f","o","r">>,
      <<"a","n","y","o","n","e"," ","k","n","o","w">>,
      <<"r","e","c","o","m","m","e","n","d">>,
      <<"n","e","e","d"," ","a"," ","t","o","o","l">>,
      <<"w","i","s","h"," ","t","h","e","r","e"," ","w","a","s">>,
      <<"d","o","e","s"," ","a","n","y","o","n","e">> }

ShowHN == <<"s","h","o","w"," ","h","n">>
AskHN == <<"a","s","k"," ","h","n">>

SignalTypes == {"pain", "workaround", "request", "launch", "unknown"}

\* RegExp.test of an alternation of literals
TestAny(pats, t) == \E p \in pats : Includes(t, p)

\* classifySignal with the keyword rules tried before the prefix rules.
classifySignalKeywordsFirst(text) ==
    LET t == ToLowerCase(text) IN
    IF TestAny(PainPatterns, t) THEN "pain"
    ELSE IF TestAny(WorkaroundPatterns, t) THEN "workaround"
    ELSE IF TestAny(RequestPatterns, t) THEN "request"
    ELSE IF StartsWith(t, ShowHN) THEN "launch"
    ELSE IF StartsWith(t, AskHN) THEN "request"
    ELSE "unknown"

classifySignal(text) ==
    LET t == ToLowerCase(text) IN
    IF StartsWith(t, ShowHN) THEN "launch"
    ELSE IF StartsWith(t, AskHN) THEN "request"
    ELSE IF TestAny(PainPatterns, t) THEN "pain"
    ELSE IF TestAny(WorkaroundPatterns, t) THEN "workaround"
    ELSE IF TestAny(RequestPatterns, t) THEN "request"
    ELSE "unknown"

\* ---------------------------------------------------------------- stripHtmlTags
\* The characters of \s and of trim() that the inputs use.
WhiteSpace == {" ", "\t", "\n"}

\* The smallest and the largest element of a set of positions, 0 when empty.
First(S) == IF S = {} THEN 0 ELSE CHOOSE i \in S : \A j \in S : i <= j
Last(S) == IF S = {} THEN 0 ELSE CHOOSE i \in S : \A j \in S : i >= j

\* The positions of ">" after position i.
Closers(s, i) == { j \in (i + 1)..Len(s) : s[j] = ">" }
\* TagOpens for /<[^>]+>/: a tag needs a character between its brackets.
TagOpensNonEmpty(s) ==
    { i \in 1..Len(s) : s[i] = "<" /\ i < Len(s) /\ s[i + 1] # ">"
                          /\ Closers(s, i) # {} }
\* The positions of a "<" with a ">" somewhere after it: where /<[^>]*>/
\* can match.
TagOpens(s) == { i \in 1..Len(s) : s[i] = "<" /\ Closers(s, i) # {} }
Spaces(s) == { i \in 1..Len(s) : s[i] \in WhiteSpace }
NonSpaces(s) == { i \in 1..Len(s) : s[i] \notin WhiteSpace }

\* The string after its first n characters.
Drop(s, n) == SubSeq(s, n + 1, Len(s))

\* .replace(/<[^>]*>/, " ") without the g flag: only the first tag goes.
StripFirstTag(s) ==
    LET i == First(TagOpens(s)) IN
    IF i = 0 THEN s
    ELSE SubSeq(s, 1, i - 1) \o <<" ">> \o Drop(s, First(Closers(s, i)))

RECURSIVE StripTags(_)
\* .replace(/<[^>]*>/g, " "): left to right, each "<" up to the first ">"
\* after it becomes one space; a "<" with no ">" after it stays.
StripTags(s) ==
    LET i == First(TagOpens(s)) IN
    IF i = 0 THEN s
    ELSE SubSeq(s, 1, i - 1) \o <<" ">> \o StripTags(Drop(s, First(Closers(s, i))))

\* The smallest position at which pat occurs in s, or 0.
IndexOf(s, pat) ==
    IF Includes(s, pat)
    THEN CHOOSE i \in 1..(Len(s) - Len(pat) + 1) :
             /\ SubSeq(s, i, i + Len(pat) - 1) = pat
             /\ \A j \in 1..(i - 1) : SubSeq(s, j, j + Len(pat) - 1) # pat
    ELSE 0

RECURSIVE ReplaceAll(_, _, _)
\* .replace(/pat/g, rep) for a literal pat: non-overlapping matches, left to
\* right, the replacement text is not scanned again.
ReplaceAll(s, pat, rep) ==
    LET i == IndexOf(s, pat) IN
    IF i = 0 THEN s
    ELSE SubSeq(s, 1, i - 1) \o rep
             \o ReplaceAll(Drop(s, i + Len(pat) - 1), pat, rep)

EntAmp == <<"&","a","m","p",";">>
EntLt == <<"&","l","t",";">>
EntGt == <<"&","g","t",";">>
EntQuot == <<"&","q","u","o","t",";">>
EntApos == <<"&","#","x","2","7",";">>
EntNbsp == <<"&","n","b","s","p",";">>

\* The string after its leading run of whitespace.
DropSpace(s) ==
    LET i == First(NonSpaces(s)) IN
    IF i = 0 THEN <<>> ELSE Drop(s, i - 1)

RECURSIVE CollapseSpace(_)
\* .replace(/\s+/g, " "): each run of whitespace becomes one space.
CollapseSpace(s) ==
    LET i == First(Spaces(s)) IN
    IF i = 0 THEN s
    ELSE SubSeq(s, 1, i - 1) \o <<" ">> \o CollapseSpace(DropSpace(Drop(s, i - 1)))

\* The string before its trailing run of whitespace.
DropSpaceEnd(s) == SubSeq(s, 1, Last(NonSpaces(s)))

\* String.prototype.trim
Trim(s) == DropSpaceEnd(DropSpace(s))

stripHtmlTags(html) ==
    LET s1 == StripTags(html)
        s2 == ReplaceAll(s1, EntAmp, <<"&">>)
        s3 == ReplaceAll(s2, EntLt, <<"<">>)
        s4 == ReplaceAll(s3, EntGt, <<">">>)
        s5 == ReplaceAll(s4, EntQuot, <<"\"">>)
        s6 == ReplaceAll(s5, EntApos, <<"'">>)
        s7 == ReplaceAll(s6, EntNbsp, <<" ">>)
        s8 == CollapseSpace(s7)
    IN  Trim(s8)

\* ---------------------------------------------------------------- numbers
Min(a, b) == IF a <= b THEN a ELSE b
Max(a, b) == IF a >= b THEN a ELSE b

DigitChar(d) ==
    CASE d = 0 -> "0" [] d = 1 -> "1" [] d = 2 -> "2" [] d = 3 -> "3"
      [] d = 4 -> "4" [] d = 5 -> "5" [] d = 6 -> "6" [] d = 7 -> "7"
      [] d = 8 -> "8" [] d = 9 -> "9"

RECURSIVE NumberToString(_)
\* `${n}` for a non-negative integer n
NumberToString(n) ==
    IF n < 10 THEN <<DigitChar(n)>>
    ELSE NumberToString(n \div 10) \o <<DigitChar(n % 10)>>

\* Array.prototype.slice(0, n) and String.prototype.slice(0, n): a negative n
\* counts from the end.
SliceTo(s, n) ==
    IF n >= 0 THEN SubSeq(s, 1, Min(n, Len(s)))
    ELSE SubSeq(s, 1, Max(Len(s) + n, 0))

\* ---------------------------------------------------------------- JSON values
\* A number: finite num/den with den > 0, an infinity (num is its sign), or
\* NaN.
Fin(num, den) == [cls |-> "fin", num |-> num, den |-> den]
Inf(sign) == [cls |-> "inf", num |-> sign, den |-> 1]
NaN == [cls |-> "nan", num |-> 0, den |-> 1]

\* A value of a parsed JSON body, or undefined for a missing field. (t: the
\* typeof class; b, n, s, a: the boolean, number, string, array elements.)
VUndefined == [t |-> "undefined", b |-> FALSE, n |-> NaN, s |-> <<>>, a |-> <<>>]
VNull == [t |-> "null", b |-> FALSE, n |-> NaN, s |-> <<>>, a |-> <<>>]
VObject == [t |-> "object", b |-> FALSE, n |-> NaN, s |-> <<>>, a |-> <<>>]
VBool(b) == [t |-> "boolean", b |-> b, n |-> NaN, s |-> <<>>, a |-> <<>>]
VNum(n) == [t |-> "number", b |-> FALSE, n |-> n, s |-> <<>>, a |-> <<>>]
VStr(s) == [t |-> "string", b |-> FALSE, n |-> NaN, s |-> s, a |-> <<>>]
VArr(a) == [t |-> "array", b |-> FALSE, n |-> NaN, s |-> <<>>, a |-> a]

DigitVal(c) == CHOOSE d \in 0..9 : DigitChar(d) = c

RECURSIVE ParseDigits(_)
\* The value of a string of decimal digits.
ParseDigits(s) ==
    IF s = <<>> THEN 0
    ELSE 10 * ParseDigits(SubSeq(s, 1, Len(s) - 1)) + DigitVal(s[Len(s)])

RECURSIVE Pow10(_)
Pow10(k) == IF k = 0 THEN 1 ELSE 10 * Pow10(k - 1)

\* StringToNumber on an unsigned literal: Infinity, or decimal digits with
\* an optional fraction; anything else is NaN. (Exponents and 0x, 0o, 0b
\* literals are not among the inputs.)
UnsignedToNumber(s) ==
    LET dot == First({ i \in 1..Len(s) : s[i] = "." })
        int == IF dot = 0 THEN s ELSE SubSeq(s, 1, dot - 1)
        frac == IF dot = 0 THEN <<>> ELSE Drop(s, dot)
        digits == { DigitChar(d) : d \in 0..9 }
    IN  IF s = <<"I","n","f","i","n","i","t","y">> THEN Inf(1)
        ELSE IF Len(int) + Len(frac) = 0 THEN NaN
        ELSE IF \E i \in 1..Len(int) : int[i] \notin digits THEN NaN
        ELSE IF \E i \in 1..Len(frac) : frac[i] \notin digits THEN NaN
        ELSE Fin(ParseDigits(int \o frac), Pow10(Len(frac)))

\* Number(string): the trimmed text; "" is 0; an optional sign.
StringToNumber(s) ==
    LET t == Trim(s) IN
    IF t = <<>> THEN Fin(0, 1)
    ELSE IF t[1] = "-"
    THEN LET u == UnsignedToNumber(Tail(t)) IN [u EXCEPT !.num = 0 - u.num]
    ELSE IF t[1] = "+" THEN UnsignedToNumber(Tail(t))
    ELSE UnsignedToNumber(t)

\* String(v) for the values a request's arrays hold: strings, booleans,
\* null, and non-negative integers.
StringOf(v) ==
    CASE v.t = "string" -> v.s
      [] v.t = "number" -> NumberToString(v.n.num \div v.n.den)
      [] v.t = "boolean" -> IF v.b THEN <<"t","r","u","e">> ELSE <<"f","a","l","s","e">>
      [] v.t = "null" -> <<"n","u","l","l">>
      [] v.t = "undefined" -> <<"u","n","d","e","f","i","n","e","d">>
      [] OTHER -> <<"[","o","b","j","e","c","t"," ","O","b","j","e","c","t","]">>

\* Number(v) for a value that is not a number; an array goes through
\* Array.prototype.toString, its elements joined by "," with null as "".
ToNumber(v) ==
    CASE v.t = "undefined" -> NaN
      [] v.t = "null" -> Fin(0, 1)
      [] v.t = "boolean" -> IF v.b THEN Fin(1, 1) ELSE Fin(0, 1)
      [] v.t = "number" -> v.n
      [] v.t = "string" -> StringToNumber(v.s)
      [] v.t = "array" ->
           StringToNumber(Join([i \in 1..Len(v.a) |->
                                   IF v.a[i].t \in {"null", "undefined"} THEN <<>>
                                   ELSE StringOf(v.a[i])], <<",">>))
      [] OTHER -> NaN

\* ---------------------------------------------------------------- normalizeLimit
\* The cap of normalizeLimit.
LimitCap == 100
\* The default of normalizeLimit.
DefaultLimit == 25

\* normalizeLimit with Math.ceil in place of Math.floor.
normalizeLimitCeil(limit) ==
    LET n == IF limit.t = "number" THEN limit.n ELSE ToNumber(limit) IN
    IF n.cls # "fin" \/ n.num <= 0 THEN DefaultLimit
    ELSE Min(0 - ((0 - n.num) \div n.den), LimitCap)

normalizeLimit(limit) ==
    LET n == IF limit.t = "number" THEN limit.n ELSE ToNumber(limit) IN
    IF n.cls # "fin" \/ n.num <= 0 THEN DefaultLimit
    ELSE Min(n.num \div n.den, LimitCap)

\* ---------------------------------------------------------------- fetch
\* The outcome of one fetch: the call throws (kind "neterr", with the
\* error's message), or a response arrives with a status, a body that does
\* or does not parse as JSON, and the parsed value (None for JSON null).
NetErr(msg) ==
    [kind |-> "neterr", status |-> 0, parses |-> FALSE, body |-> None, message |-> msg]
Http(status, parses, body) ==
    [kind |-> "http", status |-> status, parses |-> parses, body |-> body,
     message |-> <<"b","a","d"," ","j","s","o","n">>]

\* Response.ok
Ok(resp) == resp.kind = "http" /\ resp.status >= 200 /\ resp.status <= 299

\* One entry of the log of issued fetches.
Fetch(what, id) == [what |-> what, id |-> id]

\* ---------------------------------------------------------------- fetchTopComments
MaxCommentsDefault == 3
ExcerptMax == 200
ExcerptKeep == 197
Separator == <<" ", "|", " ">>
Ellipsis == <<".", ".", ".">>

\* CommentSlot without the deleted and dead checks.
CommentSlotKeepsDeleted(resp) ==
    IF resp.kind = "neterr" THEN None
    ELSE IF ~Ok(resp) THEN None
    ELSE IF ~resp.parses THEN None
    ELSE IF resp.body = None THEN None
    ELSE LET comment == resp.body[1] IN
         IF comment.text = None \/ comment.text = Some(<<>>)
         THEN None
         ELSE Some(stripHtmlTags(comment.text[1]))

\* The value one commentPromises callback resolves to.
CommentSlot(resp) ==
    IF resp.kind = "neterr" THEN None
    ELSE IF ~Ok(resp) THEN None
    ELSE IF ~resp.parses THEN None
    ELSE IF resp.body = None THEN None
    ELSE LET comment == resp.body[1] IN
         IF comment.deleted \/ comment.dead
            \/ comment.text = None \/ comment.text = Some(<<>>)
         THEN None
         ELSE Some(stripHtmlTags(comment.text[1]))

\* ValidComments that keeps the comments sanitized to the empty string.
ValidCommentsKeepsEmpty(comments) ==
    LET P == { i \in 1..Len(comments) : comments[i] # None }
        at(k) == CHOOSE i \in P : Cardinality({ j \in P : j <= i }) = k
    IN  [k \in 1..Cardinality(P) |-> comments[at(k)][1]]

RECURSIVE ValidComments(_)
\* comments.filter(c => c !== null && c.length > 0)
ValidComments(comments) ==
    IF comments = <<>> THEN <<>>
    ELSE LET c == Head(comments) IN
         IF c # None /\ Len(c[1]) > 0
         THEN <<c[1]>> \o ValidComments(Tail(comments))
         ELSE ValidComments(Tail(comments))

\* Truncate cutting at 200 before the ellipsis is appended.
TruncateKeepsMax(joined) ==
    IF Len(joined) > ExcerptMax
    THEN SliceTo(joined, ExcerptMax) \o Ellipsis
    ELSE joined

\* joined.length > 200 ? joined.slice(0, 197) + "..." : joined
Truncate(joined) ==
    IF Len(joined) > ExcerptMax
    THEN SliceTo(joined, ExcerptKeep) \o Ellipsis
    ELSE joined

\* What fetchTopComments returns once Promise.all(commentPromises) settles.
Excerpt(comments) ==
    LET validComments == ValidComments(comments) IN
    IF Len(validComments) = 0 THEN <<>>
    ELSE Truncate(Join(validComments, Separator))

\* A limited item for which fetchTopComments is not called.
\* (called: the function was entered; commentIds: kids.slice(0, maxComments);
\* res: the outcome of each fetch; comments: the commentPromises results;
\* pending: the fetches in flight; ret: the return value.)
NotCalled ==
    [called |-> FALSE, commentIds |-> <<>>, res |-> <<>>, comments |-> <<>>,
     pending |-> {}, ret |-> None]

\* fetchTopCommentsCall whose early return is a placeholder text.
fetchTopCommentsCallPlaceholder(kids, maxComments) ==
    IF kids = None \/ Len(kids[1]) = 0
    THEN [called |-> TRUE, commentIds |-> <<>>, res |-> <<>>, comments |-> <<>>,
          pending |-> {}, ret |-> Some(<<"n","o","n","e">>)]
    ELSE LET commentIds == SliceTo(kids[1], maxComments) IN
         [called |-> TRUE, commentIds |-> commentIds,
          res |-> [i \in 1..Len(commentIds) |-> None],
          comments |-> [i \in 1..Len(commentIds) |-> None],
          pending |-> 1..Len(commentIds),
          ret |-> IF Len(commentIds) = 0 THEN Some(Excerpt(<<>>)) ELSE None]

\* fetchTopComments(hnApi, kids, maxComments) up to its await: an early
\* return of "", or one fetch issued per id of kids.slice(0, maxComments).
fetchTopCommentsCall(kids, maxComments) ==
    IF kids = None \/ Len(kids[1]) = 0
    THEN [called |-> TRUE, commentIds |-> <<>>, res |-> <<>>, comments |-> <<>>,
          pending |-> {}, ret |-> Some(<<>>)]
    ELSE LET commentIds == SliceTo(kids[1], maxComments) IN
         [called |-> TRUE, commentIds |-> commentIds,
          res |-> [i \in 1..Len(commentIds) |-> None],
          comments |-> [i \in 1..Len(commentIds) |-> None],
          pending |-> 1..Len(commentIds),
          ret |-> IF Len(commentIds) = 0 THEN Some(Excerpt(<<>>)) ELSE None]

\* The fetches one activation issues, in the order of commentIds.map.
CommentFetches(a) ==
    [i \in 1..Len(a.commentIds) |-> Fetch("comment", a.commentIds[i])]

\* fetchTopCommentsSettle storing the results in order of arrival.
fetchTopCommentsSettleArrival(a, j, resp) ==
    LET slot == Len(a.comments) - Cardinality(a.pending) + 1
        comments == [a.comments EXCEPT ![slot] = CommentSlot(resp)]
        pending == a.pending \ {j}
    IN  [a EXCEPT !.res[j] = Some(resp), !.comments = comments, !.pending = pending,
                  !.ret = IF pending = {} THEN Some(Excerpt(comments)) ELSE None]

\* The fetch of position j of activation a settles with resp; when it is the
\* last one, Promise.all resolves and the function returns.
fetchTopCommentsSettle(a, j, resp) ==
    LET comments == [a.comments EXCEPT ![j] = CommentSlot(resp)]
        pending == a.pending \ {j}
    IN  [a EXCEPT !.res[j] = Some(resp), !.comments = comments, !.pending = pending,
                  !.ret = IF pending = {} THEN Some(Excerpt(comments)) ELSE None]

\* ---------------------------------------------------------------- hackerNewsProvider
FetchCap == 100
HnItemUrl == <<"h","t","t","p","s",":","/","/","n","e","w","s",".","y","c","o","m","b","i","n","a","t","o","r",".","c","o","m","/","i","t","e","m","?","i","d","=">>
HnApiError == <<"H","N"," ","A","P","I"," ","e","r","r","o","r",":"," ">>
TopStoriesFailed == <<"F","a","i","l","e","d"," ","t","o"," ","f","e","t","c","h"," ","t","o","p"," ","s","t","o","r","i","e","s",":"," ">>
CommentsSuffix == <<" ","c","o","m","m","e","n","t","s">>

\* The value one itemPromises callback resolves to.
ItemSlot(resp) ==
    IF resp.kind = "neterr" THEN None
    ELSE IF ~Ok(resp) THEN None
    ELSE IF ~resp.parses THEN None
    ELSE resp.body

\* Matches comparing the lower-cased title with the keywords as given.
MatchesKeywordCase(item, keywords) ==
    /\ item # None
    /\ item[1].title # None
    /\ Len(item[1].title[1]) > 0
    /\ LET titleLower == ToLowerCase(item[1].title[1]) IN
       \E i \in 1..Len(keywords) : Includes(titleLower, keywords[i])

\* The predicate of items.filter: a fetched item with a non-empty title that
\* contains one of the lower-cased keywords.
Matches(item, keywords) ==
    /\ item # None
    /\ item[1].title # None
    /\ Len(item[1].title[1]) > 0
    /\ LET titleLower == ToLowerCase(item[1].title[1]) IN
       \E i \in 1..Len(keywords) : Includes(titleLower, ToLowerCase(keywords[i]))

\* FilterItems collecting the matches last to first.
FilterItemsReversed(its, keywords) ==
    LET P == { i \in 1..Len(its) : Matches(its[i], keywords) }
        at(k) == CHOOSE i \in P : Cardinality({ j \in P : j >= i }) = k
    IN  [k \in 1..Cardinality(P) |-> its[at(k)][1]]

\* items.filter(...): the matching items, unwrapped, in the order of the
\* array.
FilterItems(its, keywords) ==
    LET P == { i \in 1..Len(its) : Matches(its[i], keywords) }
        at(k) == CHOOSE i \in P : Cardinality({ j \in P : j <= i }) = k
    IN  [k \in 1..Cardinality(P) |-> its[at(k)][1]]

\* LimitItems keeping one item too many.
LimitItemsOffByOne(filtered, limit) == SliceTo(filtered, limit + 1)

\* filtered.slice(0, limit)
LimitItems(filtered, limit) == SliceTo(filtered, limit)

\* item.descendants && item.descendants > 0 && item.kids && item.kids.length > 0
WantsComments(item) ==
    /\ item.descendants # None /\ item.descendants[1] > 0
    /\ item.kids # None /\ Len(item.kids[1]) > 0

\* SignalItem taking the result of fetchTopComments even when it is "".
SignalItemTakesEmpty(item, a) ==
    LET default == NumberToString(IF item.descendants = None THEN 0
                                  ELSE item.descendants[1]) \o CommentsSuffix
        excerpt == IF a.called THEN a.ret[1] ELSE default
    IN  [title |-> item.title[1],
         url |-> IF item.url # None /\ Len(item.url[1]) > 0 THEN item.url[1]
                 ELSE HnItemUrl \o NumberToString(item.id),
         subreddit |-> "hackernews",
         score |-> IF item.score = None THEN 0 ELSE item.score[1],
         created_utc |-> IF item.time = None THEN 0 ELSE item.time[1],
         excerpt |-> excerpt,
         signal_type |-> classifySignal(item.title[1])]

\* The SignalItem one signalItemPromises callback resolves to, given the
\* item's fetchTopComments activation.
SignalItem(item, a) ==
    LET default == NumberToString(IF item.descendants = None THEN 0
                                  ELSE item.descendants[1]) \o CommentsSuffix
        excerpt == IF a.called /\ Len(a.ret[1]) > 0 THEN a.ret[1] ELSE default
    IN  [title |-> item.title[1],
         url |-> IF item.url # None /\ Len(item.url[1]) > 0 THEN item.url[1]
                 ELSE HnItemUrl \o NumberToString(item.id),
         subreddit |-> "hackernews",
         score |-> IF item.score = None THEN 0 ELSE item.score[1],
         created_utc |-> IF item.time = None THEN 0 ELSE item.time[1],
         excerpt |-> excerpt,
         signal_type |-> classifySignal(item.title[1])]

\* Success reporting an error when a comment excerpt came back empty.
SuccessFlagsPartial(limited, ag) ==
    [items |-> [k \in 1..Len(limited) |-> SignalItem(limited[k], ag[k])],
     error |-> IF \E k \in 1..Len(ag) : ag[k].called /\ Len(ag[k].ret[1]) = 0
               THEN Some(<<"p","a","r","t","i","a","l">>) ELSE None]

\* { items: signalItems }
Success(limited, ag) ==
    [items |-> [k \in 1..Len(limited) |-> SignalItem(limited[k], ag[k])],
     error |-> None]

\* Failure that drops the message.
FailureSilent(message) == [items |-> <<>>, error |-> None]

\* { items: [], error }
Failure(message) == [items |-> <<>>, error |-> Some(message)]

\* AfterItems cutting to limit before the failed and unmatched positions
\* are dropped.
AfterItemsLimitFirst(its, keywords, limit) ==
    LET limited == FilterItems(SliceTo(its, limit), keywords)
        ag == [k \in 1..Len(limited) |->
                 IF WantsComments(limited[k])
                 THEN fetchTopCommentsCall(limited[k].kids, MaxCommentsDefault)
                 ELSE NotCalled]
    IN  [limited |-> limited, agg |-> ag,
         log |-> Concat([k \in 1..Len(limited) |-> CommentFetches(ag[k])])]

\* The code after await Promise.all(itemPromises), up to the next await:
\* filter, limit, and the synchronous start of every signalItemPromises
\* callback, which issues the comment fetches.
AfterItems(its, keywords, limit) ==
    LET filtered == FilterItems(its, keywords)
        limited == LimitItems(filtered, limit)
        ag == [k \in 1..Len(limited) |->
                 IF WantsComments(limited[k])
                 THEN fetchTopCommentsCall(limited[k].kids, MaxCommentsDefault)
                 ELSE NotCalled]
    IN  [limited |-> limited, agg |-> ag,
         log |-> Concat([k \in 1..Len(limited) |-> CommentFetches(ag[k])])]

\* ItemsSettled resolving as soon as at most one fetch is in flight.
ItemsSettledRace(pending) == Cardinality(pending) <= 1

\* Promise.all(itemPromises) has settled: no item fetch is in flight.
ItemsSettled(pending) == pending = {}

\* AllSettled that needs at least one callback to have settled.
AllSettledNonEmpty(ag) == ag # <<>> /\ \A k \in 1..Len(ag) : ag[k].pending = {}

\* Promise.all(signalItemPromises) has settled.
AllSettled(ag) == \A k \in 1..Len(ag) : ag[k].pending = {}

\* ---------------------------------------------------------------- router
ApplicationJson == <<"a","p","p","l","i","c","a","t","i","o","n","/","j","s","o","n">>
\* The error messages of the router.
Msg ==
    [contentType |->
        <<"C","o","n","t","e","n","t","-","T","y","p","e"," ","m","u","s","t"," ","b","e"," ","a","p","p","l","i","c","a","t","i","o","n","/","j","s","o","n">>,
     syntax |->
        <<"U","n","e","x","p","e","c","t","e","d"," ","t","o","k","e","n">>,
     extractBody |->
        <<"I","n","v","a","l","i","d"," ","b","o","d","y","."," ","E","x","p","e","c","t","e","d"," ","{"," ","s","u","b","r","e","d","d","i","t","s",":"," ","s","t","r","i","n","g","[","]",","," ","k","e","y","w","o","r","d","s",":"," ","s","t","r","i","n","g","[","]",","," ","l","i","m","i","t","?",":"," ","n","u","m","b","e","r"," ","}">>,
     subreddits |->
        <<"s","u","b","r","e","d","d","i","t","s"," ","m","u","s","t"," ","c","o","n","t","a","i","n"," ","a","t"," ","l","e","a","s","t"," ","o","n","e"," ","n","o","n","-","e","m","p","t","y"," ","s","t","r","i","n","g">>,
     keywords |->
        <<"k","e","y","w","o","r","d","s"," ","m","u","s","t"," ","c","o","n","t","a","i","n"," ","a","t"," ","l","e","a","s","t"," ","o","n","e"," ","n","o","n","-","e","m","p","t","y"," ","s","t","r","i","n","g">>,
     synthesizeBody |->
        <<"I","n","v","a","l","i","d"," ","b","o","d","y","."," ","E","x","p","e","c","t","e","d"," ","{"," ","i","t","e","m","s",":"," ","S","i","g","n","a","l","I","t","e","m","[","]"," ","}">>,
     items |->
        <<"i","t","e","m","s"," ","a","r","r","a","y"," ","m","u","s","t"," ","n","o","t"," ","b","e"," ","e","m","p","t","y">>,
     key |->
        <<"C","L","A","U","D","E","_","A","P","I","_","K","E","Y"," ","n","o","t"," ","c","o","n","f","i","g","u","r","e","d">>,
     apiError |->
        <<"C","l","a","u","d","e"," ","A","P","I"," ","e","r","r","o","r">>,
     noText |->
        <<"N","o"," ","t","e","x","t"," ","r","e","s","p","o","n","s","e"," ","f","r","o","m"," ","C","l","a","u","d","e">>,
     parse |->
        <<"F","a","i","l","e","d"," ","t","o"," ","p","a","r","s","e"," ","C","l","a","u","d","e"," ","r","e","s","p","o","n","s","e"," ","a","s"," ","J","S","O","N">>,
     request |->
        <<"C","l","a","u","d","e"," ","A","P","I"," ","r","e","q","u","e","s","t"," ","f","a","i","l","e","d">>,
     notFound |->
        <<"N","o","t"," ","F","o","u","n","d">>]
WorkerName == <<"f","o","u","n","d","e","r","-","s","i","g","n","a","l","-","w","o","r","k","e","r">>

\* The JSON document of a response; a field that is None is not in it. (The
\* clock readings ts and generated_at are left out.)
EmptyDoc ==
    [ok |-> None, name |-> None, error |-> None, status |-> None,
     items |-> None, meta |-> None, synthesis |-> None]

\* json(data, status)
Json(data, status) == [status |-> status, type |-> "json", data |-> data]

\* html(content)
Html == [status |-> 200, type |-> "html", data |-> EmptyDoc]

\* badRequest(message)
badRequest(message) == Json([EmptyDoc EXCEPT !.error = Some(message)], 400)

\* readJson with the content-type test dropped.
readJsonAnyType(req) ==
    IF ~req.body.parses
    THEN [ok |-> FALSE, message |-> Msg.syntax, body |-> req.body]
    ELSE [ok |-> TRUE, message |-> <<>>, body |-> req.body]

\* readJson(request): throws (ok FALSE, with the error's message) when the
\* content-type does not hold application/json or the text is not JSON.
readJson(req) ==
    LET ct == IF req.contentType = None THEN <<>> ELSE req.contentType[1] IN
    IF ~Includes(ToLowerCase(ct), ApplicationJson)
    THEN [ok |-> FALSE, message |-> Msg.contentType, body |-> req.body]
    ELSE IF ~req.body.parses
    THEN [ok |-> FALSE, message |-> Msg.syntax, body |-> req.body]
    ELSE [ok |-> TRUE, message |-> <<>>, body |-> req.body]

RECURSIVE TrimAll(_)
\* a.map((s) => String(s).trim()).filter(Boolean)
TrimAll(a) ==
    IF a = <<>> THEN <<>>
    ELSE LET s == Trim(StringOf(Head(a))) IN
         (IF Len(s) > 0 THEN <<s>> ELSE <<>>) \o TrimAll(Tail(a))

\* Which branch of the router's if-chain takes the request, on the path
\* alone (the method test dropped from the GET routes).
DispatchPathOnly(method, path) ==
    IF method = "OPTIONS" THEN "options"
    ELSE IF path = "/" THEN "ui"
    ELSE IF path = "/health" THEN "health"
    ELSE IF method = "POST" /\ path = "/synthesize" THEN "synthesize"
    ELSE IF method = "POST" /\ path = "/extract" THEN "extract"
    ELSE "notfound"

\* Which branch of the router's if-chain takes the request.
Dispatch(method, path) ==
    IF method = "OPTIONS" THEN "options"
    ELSE IF method = "GET" /\ path = "/" THEN "ui"
    ELSE IF method = "GET" /\ path = "/health" THEN "health"
    ELSE IF method = "POST" /\ path = "/synthesize" THEN "synthesize"
    ELSE IF method = "POST" /\ path = "/extract" THEN "extract"
    ELSE "notfound"

\* POST /extract up to the call of normalizeLimit: the 400 response, or None
\* when the request is valid.
extractValidate(req) ==
    LET r == readJson(req)
        body == r.body
    IN  IF ~r.ok THEN Some(badRequest(r.message))
        ELSE IF body.kind = "falsy" \/ body.subreddits.t # "array"
                \/ body.keywords.t # "array"
        THEN Some(badRequest(Msg.extractBody))
        ELSE IF Len(TrimAll(body.subreddits.a)) = 0
        THEN Some(badRequest(Msg.subreddits))
        ELSE IF Len(TrimAll(body.keywords.a)) = 0
        THEN Some(badRequest(Msg.keywords))
        ELSE None

\* extractResponse answering 502 when the result carries an error.
extractResponseBadGateway(req, keywords, limit, result) ==
    LET truthy == result.error # None /\ Len(result.error[1]) > 0
        meta == [subreddits |-> TrimAll(req.body.subreddits.a),
                 keywords |-> keywords, limit |-> limit, provider |-> "hackernews",
                 error |-> IF truthy THEN result.error ELSE None]
    IN  Json([EmptyDoc EXCEPT !.items = Some(result.items), !.meta = Some(meta)],
             IF truthy THEN 502 ELSE 200)

\* POST /extract after await hackerNewsProvider(keywords, limit).
extractResponse(req, keywords, limit, result) ==
    LET truthy == result.error # None /\ Len(result.error[1]) > 0
        meta == [subreddits |-> TrimAll(req.body.subreddits.a),
                 keywords |-> keywords, limit |-> limit, provider |-> "hackernews",
                 error |-> IF truthy THEN result.error ELSE None]
    IN  Json([EmptyDoc EXCEPT !.items = Some(result.items), !.meta = Some(meta)], 200)

\* !env.CLAUDE_API_KEY
KeyUnset(e) == e.CLAUDE_API_KEY = None \/ Len(e.CLAUDE_API_KEY[1]) = 0

\* synthesizeValidate testing the credential before the body.
synthesizeValidateKeyFirst(req, e) ==
    LET r == readJson(req)
        body == r.body
    IN  IF KeyUnset(e)
        THEN Some(Json([EmptyDoc EXCEPT !.error = Some(Msg.key)], 500))
        ELSE IF ~r.ok THEN Some(badRequest(r.message))
        ELSE IF body.kind = "falsy" \/ body.items.t # "array"
        THEN Some(badRequest(Msg.synthesizeBody))
        ELSE IF Len(body.items.a) = 0 THEN Some(badRequest(Msg.items))
        ELSE None

\* POST /synthesize up to the downstream call: the 400 or 500 response, or
\* None when the call is made.
synthesizeValidate(req, e) ==
    LET r == readJson(req)
        body == r.body
    IN  IF ~r.ok THEN Some(badRequest(r.message))
        ELSE IF body.kind = "falsy" \/ body.items.t # "array"
        THEN Some(badRequest(Msg.synthesizeBody))
        ELSE IF Len(body.items.a) = 0 THEN Some(badRequest(Msg.items))
        ELSE IF KeyUnset(e)
        THEN Some(Json([EmptyDoc EXCEPT !.error = Some(Msg.key)], 500))
        ELSE None

\* The markdown fence; the backquote, which a TLA+ string cannot hold, is
\* written "^".
Fence == <<"^", "^", "^">>

\* The text of the model's reply with its markdown fences removed.
StripFences(text) ==
    LET t1 == Trim(text)
        firstNewline == IndexOf(t1, <<"\n">>)
        t2 == IF StartsWith(t1, Fence) /\ firstNewline # 0
              THEN Drop(t1, firstNewline) ELSE t1
        endsWith == Len(t2) >= 3 /\ SubSeq(t2, Len(t2) - 2, Len(t2)) = Fence
        t3 == IF endsWith THEN SliceTo(t2, 0 - 3) ELSE t2
    IN  Trim(t3)

\* Texts the downstream model replies with: a brief, an object without the
\* two fields, null, a number, and prose.
Text ==
    [brief |->
        <<"{","\"","o","p","p","o","r","t","u","n","i","t","i","e","s","\"",":","[","]",",","\"","e","x","e","c","u","t","i","v","e","_","s","u","m","m","a","r","y","\"",":","\"","s","\"","}">>,
     emptyObject |-> <<"{","}">>,
     null |-> <<"n","u","l","l">>,
     number |-> <<"5">>,
     prose |-> <<"S","o","r","r","y">>]

\* JSON.parse on those texts; any other text throws (ok FALSE).
JsonParse(t) ==
    CASE t = Text.brief ->
           [ok |-> TRUE, isNull |-> FALSE, opportunities |-> Some(<<>>),
            executive_summary |-> Some(<<"s">>)]
      [] t = Text.emptyObject \/ t = Text.number ->
           [ok |-> TRUE, isNull |-> FALSE, opportunities |-> None,
            executive_summary |-> None]
      [] t = Text.null ->
           [ok |-> TRUE, isNull |-> TRUE, opportunities |-> None,
            executive_summary |-> None]
      [] OTHER ->
           [ok |-> FALSE, isNull |-> FALSE, opportunities |-> None,
            executive_summary |-> None]

BadGateway(message) == Json([EmptyDoc EXCEPT !.error = Some(message)], 502)

\* POST /synthesize after the downstream call settled with resp; the text
\* block is the first element of content of type text.
synthesizeResponse(req, resp) ==
    IF resp.kind = "neterr" THEN BadGateway(Msg.request)
    ELSE IF ~Ok(resp)
    THEN Json([EmptyDoc EXCEPT !.error = Some(Msg.apiError),
                               !.status = Some(resp.status)], 502)
    ELSE IF ~resp.parses \/ resp.body = None \/ resp.body[1].content = None
    THEN BadGateway(Msg.request)
    ELSE LET content == resp.body[1].content[1]
             b == First({ i \in 1..Len(content) : content[i].type = "text" })
         IN  IF b = 0 \/ content[b].text = None \/ Len(content[b].text[1]) = 0
             THEN BadGateway(Msg.noText)
             ELSE LET parsed == JsonParse(StripFences(content[b].text[1])) IN
                  IF ~parsed.ok THEN BadGateway(Msg.parse)
                  ELSE IF parsed.isNull THEN BadGateway(Msg.request)
                  ELSE Json([EmptyDoc EXCEPT !.synthesis = Some(
                                [item_count |-> Len(req.body.items.a),
                                 opportunities |-> parsed.opportunities,
                                 executive_summary |-> parsed.executive_summary])],
                            200)

\* ---------------------------------------------------------------- inputs
\* Fragments of titles: both prefixes in several cases, every alternative of
\* the three patterns, and filler.
ClassifyFrags ==
    << <<"S","h","o","w"," ","H","N">>, <<"s","h","o","w"," ","h","n">>,
       <<"A","s","k"," ","H","N">>, <<"a","s","k"," ","h","n">>,
       <<" ">>, <<"x">>, <<"s","h","o","w">>, <<" ","H","N",":">>,
       <<"P","a","i","n">>, <<"s","t","u","c","k">>,
       <<"f","r","u","s","t","r","a","t","e","d">>, <<"h","a","t","e">>,
       <<"B","R","O","K","E","N">>, <<"c","a","n","'","t">>,
       <<"c","a","n","n","o","t">>, <<"p","r","o","b","l","e","m">>,
       <<"i","s","s","u","e">>,
       <<"w","o","r","k","a","r","o","u","n","d">>, <<"H","a","c","k">>,
       <<"d","u","c","t"," ","t","a","p","e">>, <<"s","c","r","i","p","t">>,
       <<"a","u","t","o","m","a","t","e">>, <<"I"," ","b","u","i","l","t">>,
       <<"w","e"," ","b","u","i","l","t">>, <<"s","o","l","u","t","i","o","n">>,
       <<"l","o","o","k","i","n","g"," ","f","o","r">>,
       <<"a","n","y","o","n","e"," ","k","n","o","w">>,
       <<"R","e","c","o","m","m","e","n","d">>,
       <<"n","e","e","d"," ","a"," ","t","o","o","l">>,
       <<"w","i","s","h"," ","t","h","e","r","e"," ","w","a","s">>,
       <<"d","o","e","s"," ","a","n","y","o","n","e">> >>

\* Fragments of markup: tag brackets, a tag, the six decoded entities,
\* pieces of entities, whitespace and text.
SanitizeFrags ==
    << <<"<">>, <<">">>, <<"<", "b", ">">>, <<"&">>, <<"a">>, <<" ">>, <<"\n">>,
       EntAmp, EntLt, EntGt, EntQuot, EntApos, EntNbsp,
       <<"l","t",";">> >>


\* HNItem
Item(id, title, url, score, time, descendants, kids) ==
    [id |-> id, title |-> title, url |-> url, score |-> score, time |-> time,
     descendants |-> descendants, kids |-> kids]

\* HNComment
Comment(text, deleted, dead) == [text |-> text, deleted |-> deleted, dead |-> dead]

\* Titles carry the item's id, so that no two items share a title.
TitleLaunch(id) ==
    <<"S","h","o","w"," ","H","N",":"," ","A","I"," ","h","a","c","k"," ">>
        \o NumberToString(id)
TitleTool(id) == <<"m","y"," ","t","o","o","l"," ">> \o NumberToString(id)
TitleMiss(id) == <<"G","a","r","d","e","n"," ">> \o NumberToString(id)

\* The ids of the first n comments under item id.
KidsOf(id, n) == [j \in 1..n |-> 10 * id + j]

\* The item records the upstream may serve for an id. Every id may be a
\* launch with comments (two under item 1, one under the others); the other
\* shapes are spread over the ids: a title that matches no keyword, a record
\* without title (odd ids), with more kids than fetchTopComments takes for
\* item 1; a plain item with no counts, a zero reply count with kids, a
\* reply count with an empty kids list, an empty title (even ids).
ItemBodies(id) ==
    { Item(id, Some(TitleLaunch(id)), None, Some(5 - id), Some(id), Some(2),
           Some(KidsOf(id, IF id = 1 THEN 2 ELSE 1))) }
    \cup (IF id = 1
          THEN { Item(id, Some(TitleTool(id)), None, Some(3), Some(4), Some(4),
                      Some(KidsOf(id, MaxCommentsDefault + 1))) }
          ELSE {})
    \cup (IF id % 2 = 1
          THEN { Item(id, Some(TitleMiss(id)), None, Some(9), Some(7), Some(1),
                      Some(KidsOf(id, 1))),
                 Item(id, None, None, None, None, Some(1), Some(KidsOf(id, 1))) }
          ELSE { Item(id, Some(TitleTool(id)), Some(<<"u">>), None, None, None, None),
                 Item(id, Some(TitleTool(id)), Some(<<>>), Some(id), Some(3), Some(0),
                      Some(KidsOf(id, 1))),
                 Item(id, Some(TitleLaunch(id)), None, Some(2), None, Some(12),
                      Some(<<>>)),
                 Item(id, Some(<<>>), Some(<<>>), Some(1), None, None, None) })

\* The ways a fetch fails or answers without a record: the call throws, a
\* non-success status, a body that is not JSON, and JSON null.
FailedResponses ==
    { NetErr(<<"d","o","w","n">>), Http(404, TRUE, None), Http(200, FALSE, None),
      Http(200, TRUE, None) }

ItemResponses(id) ==
    FailedResponses \cup { Http(200, TRUE, Some(b)) : b \in ItemBodies(id) }

\* Top stories lists: ids ascending or descending, without repetition.
StoryLists ==
    { [i \in 1..n |-> i] : n \in 0..MaxStories }
        \cup { [i \in 1..n |-> n + 1 - i] : n \in 0..MaxStories }

TopResponses ==
    FailedResponses \cup { NetErr(<<>>), Http(503, FALSE, None) }
        \cup { Http(200, TRUE, Some(l)) : l \in StoryLists }

\* String.prototype.repeat
Repeat(c, n) == [i \in 1..n |-> c]

\* Comment bodies served to fetchTopComments called on its own: short ones,
\* markup, one that sanitizes to nothing, and long ones whose joins fall on
\* both sides of the 200 character cut.
AggTexts ==
    { <<"a">>, <<"b","<","i",">","c">>, <<"<","p",">">>,
      Repeat("x", 98), Repeat("y", 99) }

\* Records fetchTopComments does not use: deleted, dead, without text, with
\* an empty text.
UnusableComments ==
    { Comment(Some(<<"g","o","n","e">>), TRUE, FALSE),
      Comment(Some(<<"d","e","a","d">>), FALSE, TRUE),
      Comment(None, FALSE, FALSE), Comment(Some(<<>>), FALSE, FALSE) }

\* What the upstream serves to fetchTopComments called on its own.
AggCommentResponses ==
    FailedResponses
        \cup { Http(200, TRUE, Some(Comment(Some(t), FALSE, FALSE))) : t \in AggTexts }
        \cup { Http(200, TRUE, Some(c)) : c \in UnusableComments }

\* What the upstream serves for comment id during a call of
\* hackerNewsProvider: a failure, a deleted record or a comment, whose text
\* differs between odd and even ids.
PipeCommentResponses(id) ==
    { NetErr(<<"d","o","w","n">>),
      Http(200, TRUE, Some(Comment(Some(<<"g","o","n","e">>), TRUE, FALSE))),
      Http(200, TRUE, Some(Comment(Some(IF id % 2 = 1
                                        THEN <<"<","p",">","h","i","<","/","p",">">>
                                        ELSE <<"y","o">>),
                                   FALSE, FALSE))) }

\* Keyword lists as POST /extract passes them: trimmed, non-empty strings.
KeywordLists == { << <<"A","I">> >>, << <<"r","u","s","t">>, <<"T","o","o","l">> >> }

\* Limits as normalizeLimit returns them: 0 (from a positive fraction below
\* 1), small ones, and the cap.
Limits == 0..MaxSmallLimit \cup {LimitCap}

\* The values of body.limit: absent, null, booleans, an object, numbers
\* (fractions on both sides of 0, of 1 and of the cap, and the infinities an
\* overflowing literal parses to), strings and short arrays.
LimitValues ==
    LET numbers ==
            { Fin(k, d) : k \in (0 - MaxLimitDen)..((LimitCap + 2) * MaxLimitDen),
                          d \in 1..MaxLimitDen }
                \cup { Inf(1), Inf(0 - 1) }
        strings ==
            { <<"5","0">>, <<" ","7"," ">>, <<"2",".","5">>, <<"a","b","c">>, <<>>,
              <<" ">>, <<"-","4">>, <<"+","3">>, <<"1","0","1">>, <<".","5">>,
              <<"1",".">>, <<"1",".","2",".","3">>, <<".">>, <<"-">>,
              <<"1","2","x">>, <<"I","n","f","i","n","i","t","y">>,
              <<"-","I","n","f","i","n","i","t","y">> }
    IN  { VUndefined, VNull, VObject, VBool(TRUE), VBool(FALSE) }
            \cup { VNum(n) : n \in numbers }
            \cup { VStr(s) : s \in strings }
            \cup { VArr(<<>>), VArr(<<VNum(Fin(7, 1))>>), VArr(<<VNull>>),
                   VArr(<<VNum(Fin(1, 1)), VNum(Fin(2, 1))>>),
                   VArr(<<VStr(<<"0",".","5">>)>>) }

\* Requests with the environment they are handled in. A request has a
\* method, a URL path, a content-type header (None when absent) and a body;
\* the body is text that is not JSON (parses FALSE), a falsy value such as
\* null, a value without fields such as a number (kind "other"), or an
\* object with the fields the handlers read. The requests: every method on
\* every path without a body; every method on /extract with the base body
\* { subreddits: ["hn"], keywords: ["AI"] }; POST /extract with JSON bodies
\* that differ from the base body in one field or have both lists empty, and
\* with the base body under every content-type; POST /synthesize with every
\* body, content-type and credential (unset, empty, set).
RouteInputs ==
    LET jsonType == Some(<<"a","p","p","l","i","c","a","t","i","o","n","/","j","s","o","n">>)
        contentTypes ==
            { None, Some(<<"t","e","x","t","/","p","l","a","i","n">>), jsonType,
              Some(<<"A","p","p","l","i","c","a","t","i","o","n","/","J","S","O","N",";"," ","c","h","a","r","s","e","t","=","u","t","f","-","8">>) }
        methods == {"GET", "POST", "OPTIONS", "PUT", "HEAD"}
        paths == {"/", "/health", "/extract", "/synthesize", "/health/", "/nope"}
        Body(kind, subreddits, keywords, limit, its) ==
            [parses |-> TRUE, kind |-> kind, subreddits |-> subreddits,
             keywords |-> keywords, limit |-> limit, items |-> its]
        noFields(kind) == Body(kind, VUndefined, VUndefined, VUndefined, VUndefined)
        notJson == [noFields("falsy") EXCEPT !.parses = FALSE]
        Request(method, path, contentType, body) ==
            [method |-> method, path |-> path, contentType |-> contentType,
             body |-> body]
        subs == VArr(<<VStr(<<"h","n">>)>>)
        kws == VArr(<<VStr(<<"A","I">>)>>)
        base == Body("object", subs, kws, VUndefined, VUndefined)
        subredditValues ==
            { VUndefined, VStr(<<"h","n">>), VArr(<<>>),
              VArr(<<VStr(<<" "," ">>), VStr(<<>>)>>),
              VArr(<<VStr(<<" ","r","/","x"," ">>), VStr(<<>>)>>) }
        keywordValues ==
            { VUndefined, VNull, VArr(<<>>), VArr(<<VStr(<<" ">>)>>),
              VArr(<<VStr(<<" ","r","u","s","t"," ">>), VStr(<<>>),
                     VStr(<<"T","o","o","l">>)>>) }
        limitValues == { VNull, VNum(Fin(1, 2)), VNum(Fin(1, 1)), VNum(Fin(250, 1)) }
        extractBodies ==
            { notJson, noFields("falsy"), noFields("other"), base,
              Body("object", VArr(<<>>), VArr(<<>>), VUndefined, VUndefined) }
                \cup { Body("object", v, kws, VUndefined, VUndefined) :
                         v \in subredditValues }
                \cup { Body("object", subs, v, VUndefined, VUndefined) :
                         v \in keywordValues }
                \cup { Body("object", subs, kws, v, VUndefined) : v \in limitValues }
        synthesizeBodies ==
            { notJson, noFields("falsy"), noFields("other") }
                \cup { Body("object", VUndefined, VUndefined, VUndefined, v) :
                         v \in { VUndefined, VStr(<<"x">>), VArr(<<>>),
                                 VArr(<<VObject>>), VArr(<<VObject, VObject>>) } }
        Env(key) == [CLAUDE_API_KEY |-> key]
        keySet == Env(Some(<<"k">>))
    IN  { <<Request(m, p, None, notJson), keySet>> : m \in methods, p \in paths }
            \cup { <<Request(m, "/extract", jsonType, base), keySet>> : m \in methods }
            \cup { <<Request("POST", "/extract", jsonType, b), keySet>> :
                     b \in extractBodies }
            \cup { <<Request("POST", "/extract", c, base), Env(None)>> :
                     c \in contentTypes }
            \cup { <<Request("POST", "/synthesize", c, b), e>> :
                     c \in contentTypes, b \in synthesizeBodies,
                     e \in { Env(None), Env(Some(<<>>)), keySet } }

\* What the downstream API answers: the call throws, a non-success status,
\* a body that is not JSON, JSON null, an object without content (content
\* None), content without a text block or with an empty one, and text
\* blocks holding a brief (bare, fenced, after another block), other JSON
\* values, and prose.
DownstreamResponses ==
    LET Block(type, text) == [type |-> type, text |-> text]
        Data(content) == Http(200, TRUE, Some([content |-> content]))
        texts ==
            { Text.brief, Text.emptyObject, Text.null, Text.number, Text.prose,
              Fence \o <<"j","s","o","n","\n">> \o Text.brief \o <<"\n">> \o Fence,
              Fence \o Text.emptyObject \o Fence,
              <<" ">> \o Text.null \o <<"\n">> }
    IN  { NetErr(<<"d","o","w","n">>), Http(429, TRUE, None), Http(500, FALSE, None),
          Http(200, FALSE, None), Http(200, TRUE, None),
          Data(None), Data(Some(<<>>)),
          Data(Some(<<Block("tool_use", None)>>)),
          Data(Some(<<Block("text", None)>>)),
          Data(Some(<<Block("text", Some(<<>>))>>)),
          Data(Some(<<Block("tool_use", None), Block("text", Some(Text.brief))>>)) }
            \cup { Data(Some(<<Block("text", Some(t))>>)) : t \in texts }

\* Long top stories lists, the ids 1..n: empty, one id, and lengths around
\* the fetch cap.
LongTopResponses ==
    { Http(200, TRUE, Some([i \in 1..n |-> i])) :
        n \in {0, 1, FetchCap - 1} \cup FetchCap..(FetchCap + MaxOverCap) }

\* What the upstream serves for an item of a long list: every fortieth id
\* and every id beyond the fetch cap is a launch with one comment, every
\* ninth id fails, the others have a title that matches no keyword.
LongItemResponse(id) ==
    IF id % 40 = 0 \/ id > FetchCap
    THEN Http(200, TRUE, Some(Item(id, Some(TitleLaunch(id)), None, Some(1),
                                   Some(id), Some(1), Some(KidsOf(id, 1)))))
    ELSE IF id % 9 = 0 THEN NetErr(<<"d","o","w","n">>)
    ELSE Http(200, TRUE, Some(Item(id, Some(TitleMiss(id)), None, Some(1),
                                   Some(id), None, None)))

\* kids arguments of fetchTopComments: undefined, empty, and up to MaxKids ids.
KidsArgs == {None} \cup { Some(KidsOf(1, n)) : n \in 0..MaxKids }

\* ---------------------------------------------------------------- pure calls
\* The router's variables while a function is called on its own.
RouterIdle == request = None /\ env = None /\ claudeRes = None /\ response = None

\* The pipeline's variables while a pure function is called on its own.
PipeIdle ==
    /\ pc = "call" /\ topRes = None /\ storyIds = <<>> /\ itemRes = <<>>
    /\ items = <<>> /\ itemPending = {}
    /\ limitedItems = <<>> /\ agg = <<>> /\ fetchLog = <<>>

InitClassify ==
    /\ fn = "classifySignal"
    /\ arg \in FragStrings(ClassifyFrags, MaxClassifyFrags)
    /\ ret = None
    /\ PipeIdle
    /\ RouterIdle

\* One call of classifySignal(arg).
Classify ==
    /\ fn = "classifySignal" /\ pc = "call"
    /\ ret' = Some(classifySignal(arg))
    /\ pc' = "done"
    /\ UNCHANGED <<fn, arg, topRes, storyIds, itemRes, items, itemPending, limitedItems,
                   agg, fetchLog>>
    /\ UNCHANGED routerVars

SpecClassify == InitClassify /\ [][Classify]_vars

InitSanitize ==
    /\ fn = "stripHtmlTags"
    /\ arg \in FragStrings(SanitizeFrags, MaxSanitizeFrags)
    /\ ret = None
    /\ PipeIdle
    /\ RouterIdle

\* One call of stripHtmlTags(arg).
Sanitize ==
    /\ fn = "stripHtmlTags" /\ pc = "call"
    /\ ret' = Some(stripHtmlTags(arg))
    /\ pc' = "done"
    /\ UNCHANGED <<fn, arg, topRes, storyIds, itemRes, items, itemPending, limitedItems,
                   agg, fetchLog>>
    /\ UNCHANGED routerVars

SpecSanitize == InitSanitize /\ [][Sanitize]_vars

InitLimit ==
    /\ fn = "normalizeLimit"
    /\ arg \in LimitValues
    /\ ret = None
    /\ PipeIdle
    /\ RouterIdle

\* One call of normalizeLimit(arg).
Limit ==
    /\ fn = "normalizeLimit" /\ pc = "call"
    /\ ret' = Some(normalizeLimit(arg))
    /\ pc' = "done"
    /\ UNCHANGED <<fn, arg, topRes, storyIds, itemRes, items, itemPending, limitedItems,
                   agg, fetchLog>>
    /\ UNCHANGED routerVars

SpecLimit == InitLimit /\ [][Limit]_vars

\* ---------------------------------------------------------------- fetchTopComments on its own
InitAgg ==
    /\ fn = "fetchTopComments"
    /\ arg \in [kids : KidsArgs, maxComments : 1..MaxCommentsDefault]
    /\ ret = None
    /\ PipeIdle
    /\ RouterIdle

\* fetchTopComments is called and runs to its early return or to its await.
AggCall ==
    /\ fn = "fetchTopComments" /\ pc = "call"
    /\ LET a == fetchTopCommentsCall(arg.kids, arg.maxComments) IN
       /\ agg' = <<a>>
       /\ fetchLog' = fetchLog \o CommentFetches(a)
       /\ ret' = a.ret
       /\ pc' = IF a.ret = None THEN "comments" ELSE "done"
    /\ UNCHANGED <<fn, arg, topRes, storyIds, itemRes, items, itemPending, limitedItems>>
    /\ UNCHANGED routerVars

\* One comment fetch settles.
AggCommentDone ==
    /\ fn = "fetchTopComments" /\ pc = "comments"
    /\ \E j \in agg[1].pending : \E resp \in AggCommentResponses :
         LET a == fetchTopCommentsSettle(agg[1], j, resp) IN
         /\ agg' = <<a>>
         /\ ret' = a.ret
         /\ pc' = IF a.ret = None THEN "comments" ELSE "done"
    /\ UNCHANGED <<fn, arg, topRes, storyIds, itemRes, items, itemPending, limitedItems,
                   fetchLog>>
    /\ UNCHANGED routerVars

NextAgg == AggCall \/ AggCommentDone

SpecAgg == InitAgg /\ [][NextAgg]_vars

\* ---------------------------------------------------------------- hackerNewsProvider
Init ==
    /\ fn = "hackerNewsProvider"
    /\ arg \in [keywords : KeywordLists, limit : Limits]
    /\ ret = None
    /\ PipeIdle
    /\ RouterIdle

\* hackerNewsProvider is called and issues the top stories fetch.
Call ==
    /\ fn = "hackerNewsProvider" /\ pc = "call"
    /\ pc' = "top"
    /\ fetchLog' = fetchLog \o <<Fetch("top", 0)>>
    /\ UNCHANGED <<fn, arg, ret, topRes, storyIds, itemRes, items, itemPending,
                   limitedItems, agg>>
    /\ UNCHANGED routerVars

\* The function returns r.
Return(r) == pc' = "done" /\ ret' = Some(r)

\* Promise.all(itemPromises) has resolved to its: the code runs on to the
\* return when no comment fetch is in flight, else to the next await.
Continue(its, log) ==
    LET c == AfterItems(its, arg.keywords, arg.limit) IN
    /\ limitedItems' = c.limited
    /\ agg' = c.agg
    /\ fetchLog' = log \o c.log
    /\ IF AllSettled(c.agg)
       THEN Return(Success(c.limited, c.agg))
       ELSE pc' = "comments" /\ ret' = None

\* fetchLimit without the cap.
FetchLimitUncapped(ids) == Len(ids)

\* const fetchLimit = Math.min(storyIds.length, 100)
FetchLimit(ids) == Min(Len(ids), FetchCap)

\* The top stories fetch settles with resp: a failure returns the error
\* result, a list starts one item fetch per id of its first FetchCap ids.
TopSettle(resp) ==
    /\ topRes' = Some(resp)
    /\ IF resp.kind = "neterr" \/ (Ok(resp) /\ (~resp.parses \/ resp.body = None))
       THEN /\ Return(Failure(HnApiError \o resp.message))
            /\ UNCHANGED <<storyIds, itemRes, items, itemPending, limitedItems,
                           agg, fetchLog>>
       ELSE IF ~Ok(resp)
       THEN /\ Return(Failure(TopStoriesFailed \o NumberToString(resp.status)))
            /\ UNCHANGED <<storyIds, itemRes, items, itemPending, limitedItems,
                           agg, fetchLog>>
       ELSE LET ids == resp.body[1]
                fetchLimit == FetchLimit(ids)
                fetched == SliceTo(ids, fetchLimit)
                log == fetchLog
                         \o [i \in 1..fetchLimit |-> Fetch("item", fetched[i])]
            IN  /\ storyIds' = ids
                /\ itemRes' = [i \in 1..fetchLimit |-> None]
                /\ items' = [i \in 1..fetchLimit |-> None]
                /\ itemPending' = 1..fetchLimit
                /\ IF fetchLimit = 0
                   THEN Continue(<<>>, log)
                   ELSE /\ pc' = "items" /\ ret' = None /\ fetchLog' = log
                        /\ UNCHANGED <<limitedItems, agg>>

\* The top stories fetch settles.
TopDone ==
    /\ fn = "hackerNewsProvider" /\ pc = "top"
    /\ \E resp \in TopResponses : TopSettle(resp)
    /\ UNCHANGED <<fn, arg>>
    /\ UNCHANGED routerVars

\* ItemSettle fetching the item a second time when its first fetch failed.
ItemSettleRetry(i, resp) ==
    LET its == [items EXCEPT ![i] = ItemSlot(resp)]
        again == Fetch("item", storyIds[i])
    IN
    /\ itemRes' = [itemRes EXCEPT ![i] = Some(resp)]
    /\ items' = its
    /\ IF ItemSlot(resp) = None
          /\ Cardinality({ p \in 1..Len(fetchLog) : fetchLog[p] = again }) < 2
       THEN /\ fetchLog' = fetchLog \o <<again>>
            /\ UNCHANGED <<itemPending, pc, ret, limitedItems, agg>>
       ELSE /\ itemPending' = itemPending \ {i}
            /\ IF ItemsSettled(itemPending \ {i})
               THEN Continue(its, fetchLog)
               ELSE UNCHANGED <<pc, ret, limitedItems, agg, fetchLog>>

\* The item fetch of position i settles with resp; the last one resolves
\* Promise.all(itemPromises).
ItemSettle(i, resp) ==
    LET its == [items EXCEPT ![i] = ItemSlot(resp)] IN
    /\ itemRes' = [itemRes EXCEPT ![i] = Some(resp)]
    /\ items' = its
    /\ itemPending' = itemPending \ {i}
    /\ IF ItemsSettled(itemPending \ {i})
       THEN Continue(its, fetchLog)
       ELSE UNCHANGED <<pc, ret, limitedItems, agg, fetchLog>>

\* One item fetch settles.
ItemDone ==
    /\ fn = "hackerNewsProvider" /\ pc = "items"
    /\ \E i \in itemPending : \E resp \in ItemResponses(storyIds[i]) :
         ItemSettle(i, resp)
    /\ UNCHANGED <<fn, arg, topRes, storyIds>>
    /\ UNCHANGED routerVars

\* One comment fetch settles; the last one of an item returns its excerpt,
\* and the last one of the call resolves Promise.all(signalItemPromises).
CommentDone ==
    /\ fn = "hackerNewsProvider" /\ pc = "comments"
    /\ \E k \in 1..Len(agg) :
         \E j \in agg[k].pending :
           \E resp \in PipeCommentResponses(agg[k].commentIds[j]) :
           LET ag == [agg EXCEPT ![k] = fetchTopCommentsSettle(agg[k], j, resp)] IN
           /\ agg' = ag
           /\ IF AllSettled(ag)
              THEN Return(Success(limitedItems, ag))
              ELSE UNCHANGED <<pc, ret>>
    /\ UNCHANGED <<fn, arg, topRes, storyIds, itemRes, items, itemPending, limitedItems,
                   fetchLog>>
    /\ UNCHANGED routerVars

Next == Call \/ TopDone \/ ItemDone \/ CommentDone

Spec == Init /\ [][Next]_vars

\* hackerNewsProvider with its scheduling: once called, the function body
\* runs to its first await. Nothing is assumed of the upstream: a fetch may
\* stay in flight for ever.
SpecLive == Spec /\ WF_vars(Call)

\* ---------------------------------------------------------------- long lists
\* hackerNewsProvider on top stories lists around the fetch cap. The item
\* fetches settle in the order of their issue, each with the one response
\* its id has.
InitFan ==
    /\ fn = "hackerNewsProvider"
    /\ arg \in [keywords : { << <<"A","I">> >> }, limit : {1, LimitCap}]
    /\ ret = None
    /\ PipeIdle
    /\ RouterIdle

\* The top stories fetch settles with a long list.
FanTopDone ==
    /\ fn = "hackerNewsProvider" /\ pc = "top"
    /\ \E resp \in LongTopResponses : TopSettle(resp)
    /\ UNCHANGED <<fn, arg>>
    /\ UNCHANGED routerVars

\* The oldest item fetch in flight settles.
FanItemDone ==
    /\ fn = "hackerNewsProvider" /\ pc = "items"
    /\ LET i == First(itemPending) IN ItemSettle(i, LongItemResponse(storyIds[i]))
    /\ UNCHANGED <<fn, arg, topRes, storyIds>>
    /\ UNCHANGED routerVars

NextFan == Call \/ FanTopDone \/ FanItemDone \/ CommentDone

SpecFan == InitFan /\ [][NextFan]_vars

\* ---------------------------------------------------------------- the router
InitRoute ==
    /\ fn = "fetch" /\ arg = None /\ ret = None
    /\ PipeIdle
    /\ \E in \in RouteInputs : request = Some(in[1]) /\ env = Some(in[2])
    /\ claudeRes = None /\ response = None

\* fetch(request, env) up to its return or its first upstream call: the
\* routes that answer at once, the 400 and 500 answers of the two POST
\* handlers, the downstream call of /synthesize, or the call of
\* hackerNewsProvider(keywords, limit). (The 404 document's list of routes is
\* left out.)
Route ==
    /\ fn = "fetch" /\ pc = "call"
    /\ LET req == request[1]
           route == Dispatch(req.method, req.path)
           answer ==
               CASE route = "options" ->
                      Some(Json([EmptyDoc EXCEPT !.ok = Some(TRUE)], 200))
                 [] route = "ui" -> Some(Html)
                 [] route = "health" ->
                      Some(Json([EmptyDoc EXCEPT !.ok = Some(TRUE),
                                                 !.name = Some(WorkerName)], 200))
                 [] route = "synthesize" -> synthesizeValidate(req, env[1])
                 [] route = "extract" -> extractValidate(req)
                 [] OTHER ->
                      Some(Json([EmptyDoc EXCEPT !.error = Some(Msg.notFound)], 404))
       IN  IF answer # None
           THEN /\ response' = answer /\ pc' = "done"
                /\ UNCHANGED <<fn, arg, fetchLog>>
           ELSE IF route = "synthesize"
           THEN /\ pc' = "claude"
                /\ fetchLog' = fetchLog \o <<Fetch("claude", 0)>>
                /\ UNCHANGED <<fn, arg, response>>
           ELSE /\ fn' = "hackerNewsProvider"
                /\ arg' = [keywords |-> TrimAll(req.body.keywords.a),
                           limit |-> normalizeLimit(req.body.limit)]
                /\ UNCHANGED <<pc, fetchLog, response>>
    /\ UNCHANGED <<ret, topRes, storyIds, itemRes, items, itemPending, limitedItems,
                   agg, request, env, claudeRes>>

\* ExtractRespond labelling the items after the first requested subreddit.
ExtractRespondLabels ==
    /\ fn = "hackerNewsProvider" /\ pc = "done"
    /\ request # None /\ response = None
    /\ LET r == extractResponse(request[1], arg.keywords, arg.limit, ret[1])
           label == IF TrimAll(request[1].body.subreddits.a)[1] = <<"h","n">>
                    THEN "hackernews" ELSE "reddit"
       IN  response' = Some([r EXCEPT !.data.items =
                 Some([k \in 1..Len(ret[1].items) |->
                         [ret[1].items[k] EXCEPT !.subreddit = label]])])
    /\ fn' = "fetch"
    /\ UNCHANGED <<arg, ret, pc, topRes, storyIds, itemRes, items, itemPending,
                   limitedItems, agg, fetchLog, request, env, claudeRes>>

\* hackerNewsProvider has returned to POST /extract, which answers.
ExtractRespond ==
    /\ fn = "hackerNewsProvider" /\ pc = "done"
    /\ request # None /\ response = None
    /\ response' = Some(extractResponse(request[1], arg.keywords, arg.limit, ret[1]))
    /\ fn' = "fetch"
    /\ UNCHANGED <<arg, ret, pc, topRes, storyIds, itemRes, items, itemPending,
                   limitedItems, agg, fetchLog, request, env, claudeRes>>

\* The downstream call of POST /synthesize settles, and the handler answers.
ClaudeDone ==
    /\ fn = "fetch" /\ pc = "claude"
    /\ \E resp \in DownstreamResponses :
         /\ claudeRes' = Some(resp)
         /\ response' = Some(synthesizeResponse(request[1], resp))
    /\ pc' = "done"
    /\ UNCHANGED <<fn, arg, ret, topRes, storyIds, itemRes, items, itemPending,
                   limitedItems, agg, fetchLog, request, env>>

NextRoute ==
    Route \/ Call \/ TopDone \/ ItemDone \/ CommentDone \/ ExtractRespond \/ ClaudeDone

SpecRoute == InitRoute /\ [][NextRoute]_vars

\* ---------------------------------------------------------------- claims
Done == pc = "done"
IsExtract == fn = "hackerNewsProvider"
IsAggregate == fn = "fetchTopComments"

\* The fetch answered with a success status and a JSON value other than null.
Fetched(resp) ==
    resp.kind = "http" /\ Ok(resp) /\ resp.parses /\ resp.body # None

\* The top stories fetch delivered a list.
ListFetched == topRes # None /\ Fetched(topRes[1])

\* The item fetch of position i delivered a record whose title holds a
\* keyword, case-insensitively.
TitleMatches(i) ==
    /\ itemRes[i] # None /\ Fetched(itemRes[i][1])
    /\ LET item == itemRes[i][1].body[1] IN
       /\ item.title # None
       /\ \E k \in 1..Len(arg.keywords) :
            Includes(ToLowerCase(item.title[1]), ToLowerCase(arg.keywords[k]))

MatchingPositions == { i \in 1..Len(itemRes) : TitleMatches(i) }

\* The k-th smallest element of a set of positions.
Kth(S, k) == CHOOSE i \in S : Cardinality({ j \in S : j <= i }) = k

\* C1: the item list extract returns is no longer than limit and no longer
\* than the number of fetched items whose title matches a keyword.
C1_AtMostLimitAndMatches ==
    (IsExtract /\ Done) =>
        /\ Len(ret[1].items) <= arg.limit
        /\ Len(ret[1].items) <= Cardinality(MatchingPositions)

\* C1 witness: two items match, the limit is 1, and one item is returned.
C1_Witness ==
    /\ IsExtract /\ Done /\ arg.limit = 1
    /\ Cardinality(MatchingPositions) = 2
    /\ Len(ret[1].items) = 1

\* The position in the top stories list of the item returned at place k.
CandidatePosition(k) ==
    LET i == CHOOSE i \in 1..Len(itemRes) :
                 /\ itemRes[i] # None /\ Fetched(itemRes[i][1])
                 /\ itemRes[i][1].body[1].title = Some(ret[1].items[k].title)
        id == itemRes[i][1].body[1].id
    IN  CHOOSE q \in 1..Len(storyIds) : storyIds[q] = id

\* C2: returned items keep the relative order their ids have in the top
\* stories list.
C2_CandidateOrder ==
    (IsExtract /\ Done) =>
        \A a, b \in 1..Len(ret[1].items) :
            a < b => CandidatePosition(a) < CandidatePosition(b)

\* C2 witness: the list is <<2, 1>>, both items are returned, item 2 first
\* although item 1 has the higher score.
C2_Witness ==
    /\ IsExtract /\ Done /\ storyIds = <<2, 1>>
    /\ Len(ret[1].items) = 2
    /\ ret[1].items[1].title = TitleLaunch(2) /\ ret[1].items[1].score = 3
    /\ ret[1].items[2].title = TitleLaunch(1) /\ ret[1].items[2].score = 4

\* C3: when the top stories fetch fails by network error or non-success
\* status, extract returns an empty item list and a non-empty error string.
C3_ListFailureResult ==
    (IsExtract /\ topRes # None /\ (topRes[1].kind = "neterr" \/ ~Ok(topRes[1]))) =>
        /\ Done
        /\ ret[1].items = <<>>
        /\ ret[1].error # None /\ Len(ret[1].error[1]) > 0

\* C3 witness: the top stories fetch answered 503 and the result carries
\* the message built from that status.
C3_Witness ==
    /\ IsExtract /\ Done /\ topRes = Some(Http(503, FALSE, None))
    /\ ret[1].items = <<>>
    /\ ret[1].error = Some(TopStoriesFailed \o <<"5", "0", "3">>)

C5_ItemFaultIsolation ==
    IsExtract =>
        /\ pc = "items" => itemPending # {}
        /\ pc = "comments" => \E k \in 1..Len(agg) : agg[k].pending # {}
        /\ (Done /\ ListFetched) =>
             /\ Len(ret[1].items) = Min(arg.limit, Cardinality(MatchingPositions))
             /\ \A k \in 1..Len(ret[1].items) :
                  Some(ret[1].items[k].title)
                      = itemRes[Kth(MatchingPositions, k)][1].body[1].title

\* C5 witness: the first item fetch failed, the limit is 1, and the second
\* item is returned.
C5_Witness ==
    /\ IsExtract /\ Done /\ arg.limit = 1 /\ Len(storyIds) = 2
    /\ itemRes[1][1].kind = "neterr"
    /\ Len(ret[1].items) = 1
    /\ ret[1].items[1].title = TitleLaunch(storyIds[2])

\* A comment record fetchTopComments can use: fetched, not deleted, not
\* dead, with a non-empty text.
Usable(resp) ==
    /\ Fetched(resp)
    /\ ~resp.body[1].deleted /\ ~resp.body[1].dead
    /\ resp.body[1].text # None /\ Len(resp.body[1].text[1]) > 0

RECURSIVE UsableTexts(_)
\* The sanitized non-empty texts of the usable records, in fetch order.
UsableTexts(res) ==
    IF res = <<>> THEN <<>>
    ELSE LET t == IF Usable(Head(res)[1])
                  THEN stripHtmlTags(Head(res)[1].body[1].text[1]) ELSE <<>>
         IN  (IF Len(t) > 0 THEN <<t>> ELSE <<>>) \o UsableTexts(Tail(res))

\* C6: fetchTopComments returns a string for every outcome of its fetches:
\* it waits only while a fetch is in flight, unusable records leave the
\* others' contribution unchanged, and with no usable record it returns "".
C6_AggregateAbsorbsFailures ==
    IsAggregate =>
        /\ pc = "comments" => agg[1].pending # {}
        /\ Done =>
             /\ ret # None
             /\ ret[1] = Truncate(Join(UsableTexts(agg[1].res), Separator))
             /\ (\A j \in 1..Len(agg[1].res) : ~Usable(agg[1].res[j][1]))
                    => ret[1] = <<>>

\* C6 witness: a network error, a deleted record and a comment "a" yield "a".
C6_Witness ==
    /\ IsAggregate /\ Done /\ Len(agg[1].res) = 3
    /\ agg[1].res[1][1].kind = "neterr"
    /\ Fetched(agg[1].res[2][1]) /\ agg[1].res[2][1].body[1].deleted
    /\ Usable(agg[1].res[3][1])
    /\ ret = Some(<<"a">>)

\* The validComments of the activation, joined.
Joined == Join(ValidComments(agg[1].comments), Separator)

\* C7: the string fetchTopComments returns is at most 200 characters long; a
\* joined text over 200 is cut to its first 197 characters plus "...", and
\* one of at most 200 is returned unchanged.
C7_ExcerptLength ==
    (IsAggregate /\ Done) =>
        /\ Len(ret[1]) <= 200
        /\ Len(Joined) > 200 =>
             /\ Len(ret[1]) = 200
             /\ SubSeq(ret[1], 198, 200) = <<".", ".", ".">>
             /\ SubSeq(ret[1], 1, 197) = SubSeq(Joined, 1, 197)
        /\ Len(Joined) <= 200 => ret[1] = Joined

\* C7 witness: a joined text of 201 characters was cut to 200.
C7_Witness ==
    /\ IsAggregate /\ Done /\ Len(agg[1].comments) > 0
    /\ Len(Joined) = 201
    /\ Len(ret[1]) = 200 /\ ret[1][200] = "." /\ ret[1][197] = "y"

\* C8: fetchTopComments called with an empty or absent kids list returns ""
\* and issues no fetch.
C8_EmptyKidsNoFetch ==
    (IsAggregate /\ pc # "call" /\ (arg.kids = None \/ Len(arg.kids[1]) = 0)) =>
        /\ Done
        /\ ret = Some(<<>>)
        /\ fetchLog = <<>>

\* C8 witness: the call with an empty kids list has returned.
C8_Witness ==
    /\ IsAggregate /\ Done /\ arg.kids = Some(<<>>)
    /\ ret = Some(<<>>) /\ fetchLog = <<>>

\* C9: classifySignal is total over strings, returns one of the five labels,
\* and is the first-match-wins rule over the lower-cased text: "show hn"
\* prefix, then "ask hn" prefix, then pain, workaround and request language,
\* otherwise unknown.
C9_ClassifyFirstMatch ==
    (fn = "classifySignal" /\ ret # None) =>
        LET t == ToLowerCase(arg)
            show == StartsWith(t, ShowHN)
            ask == StartsWith(t, AskHN)
            pain == TestAny(PainPatterns, t)
            work == TestAny(WorkaroundPatterns, t)
            req == TestAny(RequestPatterns, t)
            r == ret[1]
        IN  /\ r \in SignalTypes
            /\ show => r = "launch"
            /\ (~show /\ ask) => r = "request"
            /\ (~show /\ ~ask /\ pain) => r = "pain"
            /\ (~show /\ ~ask /\ ~pain /\ work) => r = "workaround"
            /\ (~show /\ ~ask /\ ~pain /\ ~work /\ req) => r = "request"
            /\ (~show /\ ~ask /\ ~pain /\ ~work /\ ~req) => r = "unknown"

\* C9 witness: a mixed-case "Show HN" title that also holds pain language
\* has been classified launch.
C9_Witness ==
    /\ fn = "classifySignal" /\ ret = Some("launch")
    /\ arg = <<"S","h","o","w"," ","H","N","P","a","i","n">>

\* C10 as stated: stripHtmlTags(stripHtmlTags(x)) = stripHtmlTags(x) for
\* every string x.
C10_IdempotentAll ==
    (fn = "stripHtmlTags" /\ ret # None) => stripHtmlTags(ret[1]) = ret[1]

\* The input holds none of the six entities that stripHtmlTags decodes.
NoEntity(s) ==
    \A e \in {EntAmp, EntLt, EntGt, EntQuot, EntApos, EntNbsp} : ~Includes(s, e)

\* C10 amended: stripHtmlTags(stripHtmlTags(x)) = stripHtmlTags(x) for every
\* string x in which none of the six decoded entities occurs.
C10_IdempotentNoEntity ==
    (fn = "stripHtmlTags" /\ ret # None /\ NoEntity(arg)) =>
        stripHtmlTags(ret[1]) = ret[1]

\* C10 witness: an entity-free input of text and a tag has been sanitized to
\* the text alone.
C10_Witness ==
    /\ fn = "stripHtmlTags" /\ ret # None /\ NoEntity(arg)
    /\ arg = <<"a", "<", ">">> /\ ret = Some(<<"a">>)

\* C11 as stated: the output of stripHtmlTags holds no "<" and no ">".
C11_NoBracketAll ==
    (fn = "stripHtmlTags" /\ ret # None) =>
        \A i \in 1..Len(ret[1]) : ret[1][i] \notin {"<", ">"}

\* The input holds none of the entities whose decoding yields a bracket:
\* &lt; and &gt;, and &amp;, which decodes to the "&" of a new entity.
NoBracketEntity(s) == \A e \in {EntAmp, EntLt, EntGt} : ~Includes(s, e)

\* Every "<" of the input has a ">" after it, and every ">" closes a tag:
\* it is the first ">" after some "<".
Balanced(s) ==
    /\ \A i \in 1..Len(s) : s[i] = "<" => \E j \in (i + 1)..Len(s) : s[j] = ">"
    /\ \A j \in 1..Len(s) : s[j] = ">" =>
         \E i \in 1..(j - 1) :
             s[i] = "<" /\ \A k \in (i + 1)..(j - 1) : s[k] # ">"

\* C11 amended: for an input without &amp;, &lt; and &gt; the output holds no
\* tag-like substring (no "<" with a ">" after it), and when the input's
\* brackets are balanced the output holds no "<" and no ">" at all.
C11_NoTagSurvives ==
    (fn = "stripHtmlTags" /\ ret # None /\ NoBracketEntity(arg)) =>
        /\ \A i, j \in 1..Len(ret[1]) :
               i < j => ~(ret[1][i] = "<" /\ ret[1][j] = ">")
        /\ Balanced(arg) =>
               \A i \in 1..Len(ret[1]) : ret[1][i] \notin {"<", ">"}

\* C11 witness: a tag, text and a stray ">" have been sanitized; the tag is
\* gone and the stray ">" stays.
C11_Witness ==
    /\ fn = "stripHtmlTags" /\ NoBracketEntity(arg)
    /\ arg = <<"<", "b", ">", "a", ">">> /\ ret = Some(<<"a", ">">>)

\* C12: normalizeLimit returns 25 when the limit, taken as a number, is not
\* finite (absent and non-numeric values included) or is at most 0; else
\* it returns the floor of the number, or 100 when the floor exceeds 100.
C12_NormalizeLimit ==
    (fn = "normalizeLimit" /\ ret # None) =>
        LET n == ToNumber(arg) IN
        /\ arg.t = "undefined" => ret[1] = 25
        /\ (n.cls # "fin" \/ n.num <= 0) => ret[1] = 25
        /\ (n.cls = "fin" /\ n.num > 0) =>
             \E k \in 0..n.num :
                 /\ k * n.den <= n.num /\ n.num < (k + 1) * n.den
                 /\ ret[1] = IF k < 100 THEN k ELSE 100

\* C12 witness: the limit 5/2 has been normalized to 2.
C12_Witness ==
    fn = "normalizeLimit" /\ arg = VNum(Fin(5, 2)) /\ ret = Some(2)

\* The request handled, and the route it names.
Req == request[1]
IsRoute(method, path) ==
    request # None /\ Req.method = method /\ Req.path = path
Answered == response # None

\* C13 as stated: POST /extract hands hackerNewsProvider, and echoes as
\* meta.limit, an integer between 1 and 100.
C13_LimitInRange ==
    IsRoute("POST", "/extract") =>
        /\ fn = "hackerNewsProvider" => arg.limit \in 1..100
        /\ (Answered /\ response[1].data.meta # None) =>
               response[1].data.meta[1].limit \in 1..100

\* The content-type header holds application/json, in any case.
JsonContentType(req) ==
    /\ req.contentType # None
    /\ Includes(ToLowerCase(req.contentType[1]), ApplicationJson)

\* The value is an array with an entry that is not blank.
HasEntry(v) ==
    /\ v.t = "array"
    /\ \E i \in 1..Len(v.a) :
         \E j \in 1..Len(StringOf(v.a[i])) : StringOf(v.a[i])[j] \notin WhiteSpace

\* A request POST /extract must refuse.
BadExtract(req) ==
    \/ ~JsonContentType(req)
    \/ ~req.body.parses
    \/ ~HasEntry(req.body.subreddits)
    \/ ~HasEntry(req.body.keywords)

\* C14: POST /extract answers 400 to a request with a content-type other
\* than JSON, a body that is not JSON, subreddits or keywords that is not an
\* array or has no non-blank entry; hackerNewsProvider is not called and no
\* fetch is issued.
C14_ExtractValidation ==
    (IsRoute("POST", "/extract") /\ BadExtract(Req)) =>
        /\ fn = "fetch" /\ fetchLog = <<>> /\ topRes = None
        /\ pc # "call" => Answered
        /\ Answered => response[1].status = 400 /\ response[1].data.error # None

\* C14 witness: keywords holding only a blank string was answered 400,
\* with no fetch issued.
C14_Witness ==
    /\ IsRoute("POST", "/extract") /\ JsonContentType(Req)
    /\ Req.body.keywords = VArr(<<VStr(<<" ">>)>>)
    /\ response = Some(badRequest(Msg.keywords))
    /\ fetchLog = <<>>

\* C15: a valid POST /extract is answered 200 whatever the upstream does;
\* when the top stories fetch failed the answer has no items and a
\* non-empty meta.error, and meta.error is present exactly when the result
\* of hackerNewsProvider carries an error.
C15_ExtractAlways200 ==
    (IsRoute("POST", "/extract") /\ ~BadExtract(Req) /\ Answered) =>
        LET doc == response[1].data IN
        /\ response[1].status = 200
        /\ doc.items = Some(ret[1].items) /\ doc.meta # None
        /\ (topRes[1].kind = "neterr" \/ ~Ok(topRes[1])) =>
               /\ doc.items = Some(<<>>)
               /\ doc.meta[1].error # None /\ Len(doc.meta[1].error[1]) > 0
        /\ doc.meta[1].error # None <=> ret[1].error # None
        /\ doc.meta[1].error = ret[1].error

\* C15 witness: the top stories fetch answered 503 and POST /extract
\* answered 200 with that error in meta.
C15_Witness ==
    /\ IsRoute("POST", "/extract") /\ Answered
    /\ topRes = Some(Http(503, FALSE, None))
    /\ response[1].status = 200 /\ response[1].data.items = Some(<<>>)
    /\ response[1].data.meta[1].error = Some(TopStoriesFailed \o <<"5", "0", "3">>)

\* A request POST /synthesize must refuse.
BadSynthesize(req) ==
    \/ ~JsonContentType(req)
    \/ ~req.body.parses
    \/ req.body.items.t # "array"
    \/ Len(req.body.items.a) = 0

\* The downstream answer has a text block: a success status, a JSON body
\* with content, and in it a block of type text with a non-empty text.
HasTextBlock(resp) ==
    /\ Fetched(resp) /\ resp.body[1].content # None
    /\ \E i \in 1..Len(resp.body[1].content[1]) :
         LET b == resp.body[1].content[1][i] IN
         b.type = "text" /\ b.text # None /\ Len(b.text[1]) > 0

\* The text of the first text block.
ReplyText(resp) ==
    LET content == resp.body[1].content[1] IN
    content[CHOOSE i \in 1..Len(content) :
                /\ content[i].type = "text"
                /\ \A j \in 1..(i - 1) : content[j].type # "text"].text[1]

\* The status the order of checks gives, where unusable tells which replies
\* of the downstream API count as failed.
SynthesizeStatus(unusable) ==
    IF BadSynthesize(Req) THEN 400
    ELSE IF env[1].CLAUDE_API_KEY \in {None, Some(<<>>)} THEN 500
    ELSE IF unusable THEN 502
    ELSE 200

\* The number of calls of the downstream API.
DownstreamCalls == Cardinality({ i \in 1..Len(fetchLog) : fetchLog[i].what = "claude" })

\* C16 as stated: 400, then 500, then 502 when the downstream call fails,
\* returns a non-success status, has no text block or a text that is not
\* parseable JSON, else 200.
C16_SynthesizeAsStated ==
    (IsRoute("POST", "/synthesize") /\ Answered) =>
        response[1].status =
            SynthesizeStatus(claudeRes # None /\
                (\/ ~HasTextBlock(claudeRes[1])
                 \/ ~JsonParse(StripFences(ReplyText(claudeRes[1]))).ok))

\* C16 amended: as stated, with a text that parses to null also answered
\* 502; 200 carries item_count, the number of items submitted; the
\* downstream API is not called for 400 and 500 and is called once otherwise.
C16_SynthesizeOrder ==
    IsRoute("POST", "/synthesize") =>
        /\ pc = "claude" => DownstreamCalls = 1 /\ ~Answered
        /\ Answered =>
             /\ response[1].status =
                    SynthesizeStatus(claudeRes # None /\
                        (\/ ~HasTextBlock(claudeRes[1])
                         \/ ~JsonParse(StripFences(ReplyText(claudeRes[1]))).ok
                         \/ JsonParse(StripFences(ReplyText(claudeRes[1]))).isNull))
             /\ response[1].status \in {400, 500} =>
                    DownstreamCalls = 0 /\ claudeRes = None
             /\ response[1].status \in {502, 200} =>
                    DownstreamCalls = 1 /\ claudeRes # None
             /\ response[1].status = 200 =>
                    response[1].data.synthesis[1].item_count = Len(Req.body.items.a)

\* C16 witness: two items were submitted, the downstream API answered a
\* fenced brief, and the answer is 200 with item_count 2.
C16_Witness ==
    /\ IsRoute("POST", "/synthesize") /\ Answered
    /\ claudeRes # None /\ Len(Req.body.items.a) = 2
    /\ HasTextBlock(claudeRes[1]) /\ StartsWith(ReplyText(claudeRes[1]), Fence)
    /\ response[1].status = 200
    /\ response[1].data.synthesis[1].item_count = 2

\* C17: every method and path has one outcome: OPTIONS 200 {ok: true}; GET /
\* 200 HTML; GET /health 200 with ok true and the worker's name; POST
\* /extract and POST /synthesize their handlers' answers; anything else 404
\* with error "Not Found" and no fetch.
C17_RouterTable ==
    (request # None /\ Answered) =>
        LET r == response[1]
            m == Req.method
            p == Req.path
        IN  IF m = "OPTIONS"
            THEN r = Json([EmptyDoc EXCEPT !.ok = Some(TRUE)], 200) /\ fetchLog = <<>>
            ELSE IF m = "GET" /\ p = "/"
            THEN r.status = 200 /\ r.type = "html" /\ fetchLog = <<>>
            ELSE IF m = "GET" /\ p = "/health"
            THEN /\ r.status = 200 /\ r.type = "json" /\ fetchLog = <<>>
                 /\ r.data.ok = Some(TRUE)
                 /\ r.data.name = Some(<<"f","o","u","n","d","e","r","-","s","i","g","n","a","l","-","w","o","r","k","e","r">>)
            ELSE IF m = "POST" /\ p = "/extract"
            THEN r.status \in {200, 400} /\ r.data.error # Some(Msg.notFound)
            ELSE IF m = "POST" /\ p = "/synthesize"
            THEN r.status \in {200, 400, 500, 502} /\ r.data.error # Some(Msg.notFound)
            ELSE /\ r.status = 404 /\ r.data.error = Some(<<"N","o","t"," ","F","o","u","n","d">>)
                 /\ fetchLog = <<>>

\* C17 witness: POST /health was answered 404.
C17_Witness ==
    /\ IsRoute("POST", "/health") /\ Answered
    /\ response[1].status = 404 /\ response[1].data.error = Some(Msg.notFound)

\* The positions of the log that hold a fetch of the given kind.
LogPositions(what) == { i \in 1..Len(fetchLog) : fetchLog[i].what = what }

\* C18: within one call of extract no item fetch is issued before the top
\* stories fetch delivered its list, a failed top stories fetch is the only
\* fetch of its call, and no comment fetch is issued while an item fetch is
\* in flight.
C18_PhaseOrder ==
    IsExtract =>
        /\ LogPositions("item") # {} => ListFetched
        /\ (topRes # None /\ ~ListFetched) => fetchLog = <<Fetch("top", 0)>>
        /\ LogPositions("comment") # {} =>
               /\ itemPending = {}
               /\ \A i \in 1..Len(itemRes) : itemRes[i] # None
        /\ \A i \in LogPositions("item") : \A c \in LogPositions("comment") : i < c
        /\ \A t \in LogPositions("top") : t = 1

\* C18 witness: both item fetches have completed and comment fetches are in
\* flight.
C18_Witness ==
    /\ IsExtract /\ pc = "comments" /\ Len(storyIds) = 2
    /\ itemPending = {} /\ Cardinality(LogPositions("comment")) = 3

\* The item list the recorded responses give when read by index: the first
\* limit matching items in list order, each with the excerpt of its comment
\* responses in the order of its kids.
Assembled ==
    LET n == Min(arg.limit, Cardinality(MatchingPositions)) IN
    [k \in 1..n |->
        LET item == itemRes[Kth(MatchingPositions, k)][1].body[1]
            excerpt == Truncate(Join(UsableTexts(agg[k].res), Separator))
        IN  SignalItem(item, [called |-> WantsComments(item), ret |-> Some(excerpt)])]

\* C19: the result of extract is determined by the responses of the upstream
\* read by index, whatever the order in which the fetches completed.
C19_OrderIndependent ==
    (IsExtract /\ Done /\ ListFetched) => ret[1].items = Assembled

\* C19 witness: two items are returned, and the first one's excerpt joins its
\* two comments in the order of its kids.
C19_Witness ==
    /\ IsExtract /\ Done /\ storyIds = <<1, 2>> /\ Len(ret[1].items) = 2
    /\ ret[1].items[1].excerpt = <<"h","i"," ","|"," ","y","o">>

\* The item fetches in the log that ask for the given id.
ItemFetchesOf(id) == { p \in LogPositions("item") : fetchLog[p].id = id }

\* C20: once the top stories list has arrived, the number of item fetches
\* issued is the length of the list, or 100 for a longer list; each of the
\* first 100 ids is fetched once and no later id is ever fetched, whatever
\* the limit is and however few items match.
C20_FanOutCap ==
    (IsExtract /\ ListFetched) =>
        LET n == IF Len(storyIds) <= 100 THEN Len(storyIds) ELSE 100 IN
        /\ Cardinality(LogPositions("item")) = n
        /\ \A q \in 1..Len(storyIds) :
               Cardinality(ItemFetchesOf(storyIds[q])) = IF q <= 100 THEN 1 ELSE 0
        /\ Len(itemRes) = n

\* C20 witness: the list holds more than 100 ids, the limit is 100, fewer
\* than 100 items were found, and 100 item fetches were issued.
C20_Witness ==
    /\ IsExtract /\ Done /\ ListFetched
    /\ Len(storyIds) > 100 /\ arg.limit = 100
    /\ Len(ret[1].items) = 2
    /\ Cardinality(LogPositions("item")) = 100

\* The kids argument of the call of fetchTopComments, as a list.
KidsList == IF arg.kids = None THEN <<>> ELSE arg.kids[1]

\* The requested positions whose fetch delivered a usable record.
UsablePositions ==
    { j \in 1..Len(agg[1].res) : agg[1].res[j] # None /\ Usable(agg[1].res[j][1]) }

\* The sanitized text of the record at position j.
Sanitized(j) == stripHtmlTags(agg[1].res[j][1].body[1].text[1])

\* The sanitized texts of the positions P, in the order of the positions.
InRequestedOrder(P) == [k \in 1..Cardinality(P) |-> Sanitized(Kth(P, k))]

\* The fetches of the first min(maxComments, length) ids of kids, in order.
FirstKidsFetched ==
    fetchLog = [i \in 1..Min(arg.maxComments, Len(KidsList)) |->
                  Fetch("comment", KidsList[i])]

\* C21 as stated: fetchTopComments fetches the first min(cap, length) ids
\* and nothing else, and returns the sanitized texts of all usable records
\* joined with " | " in the order of the requested ids (cut to 200).
C21_JoinAllUsable ==
    (IsAggregate /\ pc # "call") =>
        /\ FirstKidsFetched
        /\ Done => ret[1] = Truncate(Join(InRequestedOrder(UsablePositions), Separator))

\* C21 amended: fetchTopComments fetches the first min(cap, length) ids and
\* nothing else, and returns the non-empty sanitized texts of the usable
\* records joined with " | " in the order of the requested ids (cut to
\* 200): a usable record whose text sanitizes to "" adds nothing, not even
\* a separator.
C21_RequestedOrder ==
    (IsAggregate /\ pc # "call") =>
        /\ FirstKidsFetched
        /\ Done =>
             ret[1] = Truncate(Join(InRequestedOrder(
                          { j \in UsablePositions : Len(Sanitized(j)) > 0 }),
                          Separator))

\* C21 witness: four kids with cap 3 gave three fetches; the first record
\* is markup only, the second is deleted, the third is "a", and "a" is
\* returned.
C21_Witness ==
    /\ IsAggregate /\ Done /\ Len(KidsList) = 4 /\ arg.maxComments = 3
    /\ Len(fetchLog) = 3
    /\ Usable(agg[1].res[1][1]) /\ Sanitized(1) = <<>>
    /\ Fetched(agg[1].res[2][1]) /\ agg[1].res[2][1].body[1].deleted
    /\ Usable(agg[1].res[3][1])
    /\ ret = Some(<<"a">>)

\* The item fetch of position i delivered a record with a non-empty title
\* whose lower-cased form contains a lower-cased keyword.
Retainable(i) ==
    /\ itemRes[i] # None /\ Fetched(itemRes[i][1])
    /\ LET title == itemRes[i][1].body[1].title IN
       /\ title # None /\ title[1] # <<>>
       /\ \E k \in 1..Len(arg.keywords) :
            Includes(ToLowerCase(title[1]), ToLowerCase(arg.keywords[k]))

\* The item fetches have all settled and the filter has run.
Filtered == IsExtract /\ ListFetched /\ pc \in {"comments", "done"}

\* C22: the record of a position is among the items kept after the filter
\* and the cut to limit exactly when it was fetched, has a non-empty title
\* containing a keyword case-insensitively, and is one of the first limit
\* such positions; every returned item has a non-empty title that contains
\* a keyword case-insensitively.
C22_FilterIff ==
    /\ Filtered =>
          LET kept == { i \in 1..Len(itemRes) : Retainable(i) } IN
          \A i \in 1..Len(itemRes) :
              (/\ Fetched(itemRes[i][1])
               /\ \E k \in 1..Len(limitedItems) :
                    limitedItems[k] = itemRes[i][1].body[1])
                <=> (i \in kept /\ Cardinality({ j \in kept : j <= i }) <= arg.limit)
    /\ (IsExtract /\ Done) =>
          \A k \in 1..Len(ret[1].items) :
              LET title == ret[1].items[k].title IN
              /\ Len(title) > 0
              /\ \E q \in 1..Len(arg.keywords) :
                   Includes(ToLowerCase(title), ToLowerCase(arg.keywords[q]))

\* C22 witness: of two fetched items the one with an empty title is dropped
\* and "my tool 1" is returned for the keyword "Tool".
C22_Witness ==
    /\ IsExtract /\ Done /\ arg.limit = LimitCap /\ Len(storyIds) = 2
    /\ \E i \in 1..2 : /\ Fetched(itemRes[i][1])
                         /\ itemRes[i][1].body[1].title = Some(<<>>)
    /\ Len(ret[1].items) = 1
    /\ ret[1].items[1].title = TitleTool(1)
    /\ arg.keywords[2] = <<"T","o","o","l">>

\* The item has a positive reply count and a non-empty child-id list.
HasReplies(item) ==
    /\ item.descendants # None /\ item.descendants[1] >= 1
    /\ item.kids # None /\ item.kids[1] # <<>>

\* The comment fetches of a kept item: none without replies, else its first
\* three child ids.
RepliesFetched(item) ==
    IF HasReplies(item)
    THEN [j \in 1..Min(3, Len(item.kids[1])) |-> Fetch("comment", item.kids[1][j])]
    ELSE <<>>

\* The comment fetches issued so far, in the order of their issue.
CommentLog ==
    LET P == LogPositions("comment") IN
    [k \in 1..Cardinality(P) |-> fetchLog[Kth(P, k)]]

\* "<reply-count> comments", reply count 0 when absent.
DefaultExcerpt(item) ==
    (IF item.descendants = None THEN <<"0">> ELSE NumberToString(item.descendants[1]))
        \o <<" ","c","o","m","m","e","n","t","s">>

\* What the aggregator made of the comment fetches of the k-th kept item.
Aggregated(k) == Truncate(Join(UsableTexts(agg[k].res), Separator))

\* C23: comment fetches are issued only once the items are filtered and
\* cut, and then exactly for the kept items with a positive reply count
\* and a non-empty child-id list; a returned item's excerpt is the
\* aggregator's result when that is non-empty and the default
\* "<reply-count> comments" otherwise, and it is never empty.
C23_ExcerptResolution ==
    IsExtract =>
        /\ ~Filtered => CommentLog = <<>>
        /\ Filtered =>
             CommentLog = Concat([k \in 1..Len(limitedItems) |->
                                    RepliesFetched(limitedItems[k])])
        /\ (Done /\ ListFetched) =>
             /\ Len(ret[1].items) = Len(limitedItems)
             /\ \A k \in 1..Len(limitedItems) :
                  LET item == limitedItems[k]
                      excerpt == ret[1].items[k].excerpt
                  IN  /\ excerpt # <<>>
                      /\ excerpt = IF HasReplies(item) /\ Aggregated(k) # <<>>
                                   THEN Aggregated(k) ELSE DefaultExcerpt(item)

\* C23 witness: two items are returned; both comment fetches of the first
\* came back unusable and its excerpt is "2 comments", the comment of the
\* second was fetched and its excerpt is "hi".
C23_Witness ==
    /\ IsExtract /\ Done /\ Len(ret[1].items) = 2
    /\ Len(agg[1].res) = 2
    /\ \A j \in 1..2 : ~Usable(agg[1].res[j][1])
    /\ ret[1].items[1].excerpt = <<"2"," ","c","o","m","m","e","n","t","s">>
    /\ Len(agg[2].res) = 1 /\ Usable(agg[2].res[1][1])
    /\ ret[1].items[2].excerpt = <<"h","i">>

\* The item fetches issued so far, in the order of their issue.
ItemLog ==
    LET P == LogPositions("item") IN
    [k \in 1..Cardinality(P) |-> fetchLog[Kth(P, k)]]

\* How often the fetch f was issued.
Issued(f) == Cardinality({ p \in 1..Len(fetchLog) : fetchLog[p] = f })

\* The list fetch is issued once by the call, each selected list position
\* and each selected comment position has one fetch, and no fetch is in
\* the log twice.
ExactlyOnce ==
    IsExtract =>
        /\ Issued(Fetch("top", 0)) = (IF pc = "call" THEN 0 ELSE 1)
        /\ ItemLog = IF ListFetched
                     THEN [i \in 1..Min(Len(storyIds), 100) |->
                             Fetch("item", storyIds[i])]
                     ELSE <<>>
        /\ \A k \in 1..Len(agg) : \A j \in 1..Len(agg[k].commentIds) :
               Issued(Fetch("comment", agg[k].commentIds[j])) = 1
        /\ \A p, q \in 1..Len(fetchLog) : fetchLog[p] = fetchLog[q] => p = q

\* The fetches that have completed without delivering a record.
FailedFetches ==
    (IF topRes # None /\ ~Fetched(topRes[1]) THEN {Fetch("top", 0)} ELSE {})
    \cup { Fetch("item", storyIds[i]) :
             i \in { n \in 1..Len(itemRes) :
                       itemRes[n] # None /\ ~Fetched(itemRes[n][1]) } }
    \cup UNION { { Fetch("comment", agg[k].commentIds[j]) :
                     j \in { n \in 1..Len(agg[k].res) :
                               agg[k].res[n] # None
                                   /\ ~Fetched(agg[k].res[n][1]) } } :
                 k \in 1..Len(agg) }

\* A step only appends to the log of issued fetches, and never a fetch
\* that has already failed.
NoRefetch ==
    /\ Len(fetchLog') >= Len(fetchLog)
    /\ SubSeq(fetchLog', 1, Len(fetchLog)) = fetchLog
    /\ \A p \in (Len(fetchLog) + 1)..Len(fetchLog') : fetchLog'[p] \notin FailedFetches

\* C24: within one extract call the list fetch is issued exactly once and
\* each selected list position and comment position is fetched exactly
\* once; no step issues a fetch again after it failed.
C24_NoRetries == []ExactlyOnce /\ [][NoRefetch]_vars

\* C24 witness: the call has returned after an item fetch and a comment
\* fetch failed, and the log holds one fetch for each: the list, two items
\* and one comment.
C24_Witness ==
    /\ IsExtract /\ Done /\ Len(storyIds) = 2
    /\ itemRes[1][1].kind = "neterr"
    /\ Len(agg) = 1 /\ Len(agg[1].res) = 1 /\ agg[1].res[1][1].kind = "neterr"
    /\ Len(fetchLog) = 4
    /\ Issued(Fetch("item", storyIds[1])) = 1
    /\ Issued(Fetch("comment", agg[1].commentIds[1])) = 1

\* A fetch the call has issued has not completed.
InFlight ==
    \/ pc = "top" /\ topRes = None
    \/ itemPending # {}
    \/ \E k \in 1..Len(agg) : agg[k].pending # {}

\* C25: if no issued fetch stays in flight for ever, the call eventually
\* returns a result; if from some point on a fetch is always in flight,
\* the call never returns.
C25_ReturnsIffFetchesComplete ==
    /\ ([]<>~InFlight) => <>(Done /\ ret # None)
    /\ (<>[]InFlight) => []~Done

\* C25 witness: the call has returned after its list fetch, its item
\* fetches and a comment fetch have all completed.
C25_Witness ==
    /\ IsExtract /\ Done /\ ListFetched /\ ~InFlight
    /\ Len(itemRes) = 2 /\ \A i \in 1..2 : itemRes[i] # None
    /\ \E k \in 1..Len(agg) : Len(agg[k].res) > 0 /\ agg[k].res[1] # None
    /\ Len(ret[1].items) > 0

\* Valid subreddits values: arrays with a non-empty entry after trimming.
SubredditChoices ==
    { VArr(<<VStr(<<"h","n">>)>>),
      VArr(<<VStr(<<" ","r","/","x"," ">>), VStr(<<>>)>>),
      VArr(<<VStr(<<"a">>), VStr(<<"b">>)>>) }

\* The request with its subreddits replaced by v.
WithSubreddits(v) == [Req EXCEPT !.body.subreddits = v]

\* C26: for a valid POST /extract request and any other valid subreddits
\* value, the request with that value passes validation, makes the same
\* call of the provider (so the same fetches against the same upstream),
\* and gets the same status, the same items, each labelled "hackernews",
\* and the same meta but for the echoed subreddits.
C26_SubredditsIgnored ==
    (IsRoute("POST", "/extract") /\ ~BadExtract(Req)) =>
        \A v \in SubredditChoices :
            LET other == WithSubreddits(v) IN
            /\ extractValidate(other) = None
            /\ arg # None =>
                 arg = [keywords |-> TrimAll(other.body.keywords.a),
                        limit |-> normalizeLimit(other.body.limit)]
            /\ Answered =>
                 LET mine == response[1]
                     theirs == extractResponse(other, arg.keywords, arg.limit, ret[1])
                 IN  /\ theirs.status = mine.status
                     /\ theirs.data.items = mine.data.items
                     /\ \A k \in 1..Len(mine.data.items[1]) :
                          mine.data.items[1][k].subreddit = "hackernews"
                     /\ mine.data.meta[1].provider = "hackernews"
                     /\ mine.data.meta[1].subreddits = TrimAll(Req.body.subreddits.a)
                     /\ theirs.data.meta[1].subreddits = TrimAll(v.a)
                     /\ [theirs.data.meta[1] EXCEPT
                            !.subreddits = mine.data.meta[1].subreddits]
                          = mine.data.meta[1]
                     /\ [theirs.data EXCEPT !.meta = mine.data.meta] = mine.data

\* C26 witness: a request for the subreddits [" r/x ", ""] was answered
\* with an item labelled "hackernews" and meta.subreddits ["r/x"].
C26_Witness ==
    /\ IsRoute("POST", "/extract") /\ Answered
    /\ Req.body.subreddits = VArr(<<VStr(<<" ","r","/","x"," ">>), VStr(<<>>)>>)
    /\ response[1].status = 200
    /\ Len(response[1].data.items[1]) > 0
    /\ response[1].data.items[1][1].subreddit = "hackernews"
    /\ response[1].data.meta[1].subreddits = << <<"r","/","x">> >>

====
